---- MODULE Spec2Model ----
(***************************************************************************)
(* ESP32MidiPlayer: the streaming Standard MIDI File player of             *)
(* src/src/ESP32MidiPlayer.cpp.  The player's fields are the variables;    *)
(* every public method (load, play, pause, resume, stop, tick) is one      *)
(* action.  The file on storage is a sequence of bytes and every decoder   *)
(* (_readBytes, _readUint8, _readVariableLengthQuantity, the event         *)
(* handlers) is an operator working on those bytes as the code does.       *)
(*                                                                         *)
(* Operators that model a C++ method take the player as a record s and     *)
(* return the player after the call (methods with a result return a        *)
(* record holding the player and the result).                              *)
(***************************************************************************)
EXTENDS Integers, Sequences, FiniteSets, TLC

\* ------------------------------------------------------------------------
\* Program constants
\* ------------------------------------------------------------------------
META_EVENT == 255
META_END_OF_TRACK == 47
META_TEMPO == 81
META_TIME_SIGNATURE == 88
META_TRACK_NAME == 3
SYSEX_START == 240
SYSEX_END == 247
DefaultTempo == 500000
DefaultDivision == 96
\* "MThd" and "MTrk" as big-endian 32-bit numbers
MTHD_CHUNK_TYPE == ((77 * 256 + 84) * 256 + 104) * 256 + 100
MTRK_CHUNK_TYPE == ((77 * 256 + 84) * 256 + 114) * 256 + 107

\* ------------------------------------------------------------------------
\* Bounds of the model
\* ------------------------------------------------------------------------
\* The microsecond clock of the model is a counter modulo ClockMod (the
\* code's micros() is a 32-bit counter) and the code's 64-bit time fields
\* are kept modulo WideMod; both widths are scaled down so that the model
\* checker's integers hold them.
ClockMod == 16384
WideMod == ClockMod * ClockMod
\* The clock is not advanced past MaxClock.
MaxClock == 10000
\* A seek of the storage may fail at the 1st .. MaxFault-th seek of a call.
MaxFault == 2
\* The clock advances in steps of ClockStep microseconds (two and a half
\* ticks of the test files at the default tempo).
ClockStep == 1250

\* _finishedTracks is 8 bits wide and counts modulo 256; the model keeps it
\* modulo CountMod, the width scaled down so that the files of the model
\* have that many tracks.
CountMod == 4

\* The bytes of stack that are free for the name buffer of a track-name
\* event (the stack of a task has a fixed size).
StackBytes == 4
\* What the build produces when the buffer is larger
VlaOutcomes == { "returns", "restart" }

NoFault == -1
NoTrack == -1

\* A uint32_t of the code is kept as the number of -2^31 .. 2^31 - 1 that is
\* equal to it modulo 2^32 (the integers of the model checker are 32 bits
\* wide): 0 .. 2^31 - 1 as themselves, 2^31 .. 2^32 - 1 as the negative
\* numbers.
MaxInt32 == 2147483647
\* a < b as the code compares two uint32_t
Lt32(a, b) == IF (a >= 0) = (b >= 0) THEN a < b ELSE b < 0
\* a + b as the code adds two uint32_t: modulo 2^32
Add32(a, b) ==
    IF a >= 0 /\ b >= 0 /\ b > MaxInt32 - a
    THEN ((a - MaxInt32) - 1) + ((b - MaxInt32) - 1)
    ELSE IF a < 0 /\ b < 0 /\ b < ((0 - MaxInt32) - 1) - a
         THEN ((a + MaxInt32) + 1) + ((b + MaxInt32) + 1)
         ELSE a + b

Min(a, b) == IF a < b THEN a ELSE b
Max(a, b) == IF a > b THEN a ELSE b

RECURSIVE Gcd(_, _)
Gcd(a, b) == IF b = 0 THEN a ELSE Gcd(b, a % b)

\* floor(a * b / c) for a, b >= 0 and c > 0, computed without building a * b
\* where b and c share a factor.
MulDiv(a, b, c) == LET g == Gcd(b, c) IN (a * (b \div g)) \div (c \div g)

\* F applied to the value v: the result v of a call is named once and used
\* in F.
With(v, F(_)) == F(v)

\* ------------------------------------------------------------------------
\* Files on storage: sequences of bytes
\* ------------------------------------------------------------------------
U16BE(n) == << (n \div 256) % 256, n % 256 >>
U32BE(n) == << (n \div 16777216) % 256, (n \div 65536) % 256,
               (n \div 256) % 256, n % 256 >>
TagMThd == << 77, 84, 104, 100 >>
TagMTrk == << 77, 84, 114, 107 >>
TagMThx == << 77, 84, 104, 120 >>
Chunk(tag, body) == tag \o U32BE(Len(body)) \o body
\* TicksPerQuarter of the test files: 1000, so that one tick lasts
\* 500000 / 1000 = 500 microseconds at the default tempo.
FileDivision == 1000
Header(ntracks) == Chunk(TagMThd, U16BE(1) \o U16BE(ntracks) \o U16BE(FileDivision))

EndOfTrackEvent == << 0, 255, 47, 0 >>

\* Track 0: notes at ticks 0, 10, 20; track 1: notes at ticks 5, 15 (the
\* second one through running status, velocity 0); End-of-Track at the last
\* tick of each.
FileTwo ==
    Header(2)
    \o Chunk(TagMTrk, << 0, 144, 60, 64,   10, 128, 60, 64,   10, 144, 62, 64 >> \o EndOfTrackEvent)
    \o Chunk(TagMTrk, << 5, 144, 64, 64,   10, 64, 0 >> \o EndOfTrackEvent)

\* Three tracks with events on the same ticks (0 and 5); track 0 has a
\* program change through running status, track 1 a note-on.
FileTie ==
    Header(3)
    \o Chunk(TagMTrk, << 0, 192, 5,   0, 6,   5, 176, 7, 100 >> \o EndOfTrackEvent)
    \o Chunk(TagMTrk, << 0, 144, 60, 64,   0, 62, 64,   5, 224, 0, 64 >> \o EndOfTrackEvent)
    \o Chunk(TagMTrk, << 0, 255, 3, 1, 65,   5, 255, 47, 0 >>)

\* The last track ends in the middle of an event: the file is cut after the
\* first data byte of a note-on.
FileTrunc ==
    Header(2)
    \o Chunk(TagMTrk, << 0, 144, 60, 64,   10, 128, 60, 64 >> \o EndOfTrackEvent)
    \o Chunk(TagMTrk, << 5, 144, 64 >>)

\* Track 0 holds a delta-time of five bytes with the continuation bit.
FileVlq ==
    Header(2)
    \o Chunk(TagMTrk, << 0, 144, 60, 64,   129, 129, 129, 129, 129, 0,  128, 60, 64 >> \o EndOfTrackEvent)
    \o Chunk(TagMTrk, << 5, 144, 64, 64,   5, 128, 64, 64 >> \o EndOfTrackEvent)

\* Track 0 starts with a data byte; track 1 has a data byte after a SysEx
\* block has cancelled its running status; track 2 is well formed.
FileRs ==
    Header(3)
    \o Chunk(TagMTrk, << 0, 60, 64,   5, 144, 60, 64 >> \o EndOfTrackEvent)
    \o Chunk(TagMTrk, << 2, 144, 62, 64,   0, 240, 1, 247,   2, 62, 0 >> \o EndOfTrackEvent)
    \o Chunk(TagMTrk, << 3, 144, 64, 64,   3, 64, 0 >> \o EndOfTrackEvent)

\* FileTwo with a first chunk tag that is not "MThd".
FileBadMagic ==
    Chunk(TagMThx, U16BE(1) \o U16BE(2) \o U16BE(FileDivision))
    \o SubSeq(FileTwo, 15, Len(FileTwo))

\* A header chunk of declared length 5, followed by a well-formed track.
FileShortHdr ==
    Chunk(TagMThd, << 0, 1, 0, 1, 96 >>)
    \o Chunk(TagMTrk, << 0, 144, 60, 64 >> \o EndOfTrackEvent)

\* TicksPerQuarter of the tempo file: 25000, so that one tick lasts 20
\* microseconds at 500000 us per quarter note and 10 at 250000.
TempoDivision == 25000

\* One track: tempo 500000 at tick 0, tempo 250000 at tick 100, a note at
\* tick 200, End-of-Track at tick 300.
FileTempo ==
    Chunk(TagMThd, U16BE(1) \o U16BE(1) \o U16BE(TempoDivision))
    \o Chunk(TagMTrk, << 0, 255, 81, 3, 7, 161, 32,   100, 255, 81, 3, 3, 208, 144,
                         100, 144, 60, 64,   100, 255, 47, 0 >>)

\* Track 0 has no End-of-Track event: its chunk ends behind its note-on.
FileNoEot ==
    Header(2)
    \o Chunk(TagMTrk, << 0, 144, 60, 64 >>)
    \o Chunk(TagMTrk, << 0, 144, 62, 64 >> \o EndOfTrackEvent)

\* Two tracks: track 0 is an End-of-Track event; track 1 holds the events
\* pre, then the event ev with delta-time 0, then a note-off and
\* End-of-Track.
FileOfEvent(pre, ev) ==
    Header(2)
    \o Chunk(TagMTrk, EndOfTrackEvent)
    \o Chunk(TagMTrk, pre \o << 0 >> \o ev \o << 0, 128, 60, 0 >> \o EndOfTrackEvent)

\* The chunks of an image: a track chunk that is an End-of-Track event, and
\* chunks of another tag with 3 bytes and with no byte of data.
ChunkKinds == { "trk", "skip", "skip0" }
ChunkBytes(kind) ==
    CASE kind = "trk"   -> Chunk(TagMTrk, EndOfTrackEvent)
      [] kind = "skip"  -> Chunk(<< 88, 70, 73, 72 >>, << 1, 2, 3 >>)
      [] kind = "skip0" -> Chunk(<< 88, 70, 73, 72 >>, << >>)

\* What ends an image: nothing; the first 5 bytes of a chunk; a chunk that
\* declares 9 bytes of data and has 4 or 3; a chunk that declares
\* 0xFFFFFFF8 bytes of data.
ImageEnds == { "none", "cut", "trklong", "skiplong", "trkwrap", "skipwrap" }
EndBytes(end) ==
    CASE end = "none"     -> << >>
      [] end = "cut"      -> << 77, 84, 114, 107, 0 >>
      [] end = "trklong"  -> TagMTrk \o U32BE(9) \o EndOfTrackEvent
      [] end = "skiplong" -> << 88, 70, 73, 72 >> \o U32BE(9) \o << 1, 2, 3 >>
      [] end = "trkwrap"  -> TagMTrk \o << 255, 255, 255, 248 >> \o EndOfTrackEvent
      [] end = "skipwrap" -> << 88, 70, 73, 72, 255, 255, 255, 248, 1, 2, 3 >>

\* The data of a header chunk behind its 6 bytes: none; two bytes; eight
\* bytes that read as a track chunk without data.
HeaderExtras == { << >>, << 0, 0 >>, TagMTrk \o U32BE(0) }

ImageHeader(extra, ntracks) ==
    Chunk(TagMThd, U16BE(1) \o U16BE(ntracks) \o U16BE(FileDivision) \o extra)

RECURSIVE ChunksBytes(_)
ChunksBytes(kinds) ==
    IF kinds = << >> THEN << >> ELSE ChunkBytes(Head(kinds)) \o ChunksBytes(Tail(kinds))

\* A file of a header chunk that declares ntracks tracks, chunks and an end
FileImage(extra, ntracks, kinds, end) ==
    ImageHeader(extra, ntracks) \o ChunksBytes(kinds) \o EndBytes(end)

\* One track with notes at ticks 0, 1 and 3 and a header that declares the
\* division d (16 bits).
FileOfDivision(d) ==
    Chunk(TagMThd, U16BE(1) \o U16BE(1) \o U16BE(d))
    \o Chunk(TagMTrk, << 0, 144, 60, 64,   1, 128, 60, 64,   2, 144, 62, 64 >> \o EndOfTrackEvent)

\* n tracks, each an End-of-Track event at tick 0, behind a header that
\* declares n tracks.
TrackChunksBytes(n) ==
    LET c == Chunk(TagMTrk, EndOfTrackEvent)
    IN [ k \in 1 .. n * Len(c) |-> c[((k - 1) % Len(c)) + 1] ]
FileOfTracks(n) == Header(n) \o TrackChunksBytes(n)

FileNames ==
    { "two", "tie", "trunc", "vlq", "rs", "tempo", "noeot", "badmagic", "shorthdr", "missing" }

\* ------------------------------------------------------------------------
\* State
\* ------------------------------------------------------------------------
VARIABLES
    state,                      \* _state: "STOPPED", "PLAYING" or "PAUSED"
    open,                       \* _midiFile is an open handle
    file,                       \* the bytes of the open file
    format, trackCount, division,
    microsecondsPerQuarterNote,
    currentTick,
    playbackStartMicros, lastEventMicros, pauseStartMicros,
    tracks,                     \* _tracks: sequence of TrackInfo (track i is tracks[i+1])
    finishedTracks,             \* _finishedTracks, 8 bits wide (kept modulo CountMod)
    clock,                      \* what micros() returns
    \* history, not read by the player:
    log,                        \* callbacks delivered since the last load(), play() from STOPPED or stop() call
    trace,                      \* one entry per call of _processNextEvent since then
    ioFailed,                   \* a read was cut short or a seek failed in tick()
    vlqBad,                     \* a quantity of more than 4 bytes was met in tick()
    finishedAll,                \* every track of the file was marked finished in tick()
    lastLoad,                   \* the last load(): its file name, its result, and the state a failed one was called in
    probe,                      \* the input drawn for a call and what the call returned
    twin                        \* a second player that is never paused, and its clock

progVars == << state, open, file, format, trackCount, division,
               microsecondsPerQuarterNote, currentTick, playbackStartMicros,
               lastEventMicros, pauseStartMicros, tracks, finishedTracks >>
histVars == << log, trace, ioFailed, vlqBad, finishedAll, lastLoad >>
auxVars == << probe, twin >>
vars == << progVars, clock, histVars, auxVars >>

\* The storage: the names that open, and their content.
Exists(name) == name # "missing"
Content(name) ==
    CASE name = "two"      -> FileTwo
      [] name = "tie"      -> FileTie
      [] name = "trunc"    -> FileTrunc
      [] name = "vlq"      -> FileVlq
      [] name = "rs"       -> FileRs
      [] name = "tempo"    -> FileTempo
      [] name = "noeot"    -> FileNoEot
      [] name = "event"    -> FileOfEvent(probe.pre, probe.ev)
      [] name = "division" -> FileOfDivision(probe.division)
      [] name = "tracks"   -> FileOfTracks(probe.ntracks)
      [] name = "image"    -> FileImage(probe.extra, probe.n, probe.chunks, probe.end)
      [] name = "badmagic" -> FileBadMagic
      [] name = "shorthdr" -> FileShortHdr
      [] OTHER             -> << >>

\* The player as a record; seeks is the number of seeks of the storage that
\* still succeed in the running call (NoFault: all of them).
Player(fault) ==
    [ state |-> state, open |-> open, file |-> file,
      format |-> format, trackCount |-> trackCount, division |-> division,
      microsecondsPerQuarterNote |-> microsecondsPerQuarterNote,
      currentTick |-> currentTick,
      playbackStartMicros |-> playbackStartMicros,
      lastEventMicros |-> lastEventMicros,
      pauseStartMicros |-> pauseStartMicros,
      tracks |-> tracks, finishedTracks |-> finishedTracks,
      seeks |-> fault,
      log |-> log, trace |-> trace, ioFailed |-> ioFailed, vlqBad |-> vlqBad,
      finishedAll |-> finishedAll, kind |-> "none", vla |-> probe.vla,
      scan |-> << >>, hook |-> NoFault ]

\* struct TrackInfo after _prepareTracks found its chunk
TrackInfo(startOffset) ==
    [ startOffset |-> startOffset, currentOffset |-> startOffset,
      nextEventTick |-> 0, lastStatusByte |-> 0, endOfTrackReached |-> FALSE ]

\* ------------------------------------------------------------------------
\* stop and the readers
\* ------------------------------------------------------------------------
\* The reset leaves the track list as it is.
resetPlaybackStateKeepsTracks(s) ==
    [ s EXCEPT !.state = "STOPPED", !.currentTick = 0,
               !.microsecondsPerQuarterNote = DefaultTempo,
               !.playbackStartMicros = 0, !.lastEventMicros = 0,
               !.pauseStartMicros = 0,
               !.finishedTracks = 0, !.format = 0, !.trackCount = 0,
               !.division = DefaultDivision ]

\* _resetPlaybackState()
resetPlaybackState(s) ==
    [ s EXCEPT !.state = "STOPPED", !.currentTick = 0,
               !.microsecondsPerQuarterNote = DefaultTempo,
               !.playbackStartMicros = 0, !.lastEventMicros = 0,
               !.pauseStartMicros = 0, !.tracks = << >>,
               !.finishedTracks = 0, !.format = 0, !.trackCount = 0,
               !.division = DefaultDivision ]

\* The reset without closing the file.
stopKeepsFile(s) == resetPlaybackState(s)

\* stop(): closes the file, then resets.
stop(s) == resetPlaybackState([ s EXCEPT !.open = FALSE, !.file = << >> ])

\* File::seek: fails when the storage's fault is due.
seekOk(s) == s.seeks # 0
afterSeek(s) == IF s.seeks > 0 THEN [ s EXCEPT !.seeks = @ - 1 ] ELSE s
fileSize(s) == Len(s.file)

\* _readBytes(offset, buffer, length): the player after the call, the number
\* of bytes read and the bytes.
readBytes(s, offset, length) ==
    IF ~s.open THEN [ s |-> s, n |-> 0, bytes |-> << >> ]
    ELSE IF ~seekOk(s)
         THEN [ s |-> stop([ s EXCEPT !.ioFailed = TRUE ]), n |-> 0, bytes |-> << >> ]
         ELSE LET n == Max(0, Min(length, fileSize(s) - offset))
              IN [ s |-> [ afterSeek(s) EXCEPT !.ioFailed = @ \/ (n # length) ],
                   n |-> n,
                   bytes |-> SubSeq(s.file, offset + 1, offset + n) ]

\* _readUint8(offset): s, the advanced offset and the value.
readUint8(s, offset) ==
    With(readBytes(s, offset, 1), LAMBDA r :
        IF r.n = 1
        THEN [ s |-> r.s, offset |-> offset + 1,
               v |-> r.bytes[1] ]
        ELSE [ s |-> stop(r.s), offset |-> offset, v |-> 0 ])

readUint16BE(s, offset) ==
    With(readBytes(s, offset, 2), LAMBDA r :
        IF r.n = 2
        THEN [ s |-> r.s, offset |-> offset + 2,
               v |-> r.bytes[1] * 256 + r.bytes[2] ]
        ELSE [ s |-> stop(r.s), offset |-> offset, v |-> 0 ])

readUint32BE(s, offset) ==
    With(readBytes(s, offset, 4), LAMBDA r :
        IF r.n = 4
        THEN [ s |-> r.s, offset |-> offset + 4,
               v |-> (((IF r.bytes[1] >= 128 THEN r.bytes[1] - 256 ELSE r.bytes[1]) * 256
                        + r.bytes[2]) * 256 + r.bytes[3]) * 256 + r.bytes[4] ]
        ELSE [ s |-> stop(r.s), offset |-> offset, v |-> 0 ])

\* _getVlqLength(value): the number of bytes of the encoding of value
getVlqLength(value) ==
    IF value < 128 THEN 1
    ELSE IF value < 16384 THEN 2
    ELSE IF value < 2097152 THEN 3
    ELSE IF value < 268435456 THEN 4
    ELSE 5

\* The continuation bit of a byte is added to the value with its 7 bits.
RECURSIVE vlqLoopKeepsTopBit(_, _, _, _)
vlqLoopKeepsTopBit(s, offset, value, bytesReadCount) ==
    With(readBytes(s, offset, 1), LAMBDA r :
        IF r.n # 1
        THEN [ s |-> stop(r.s), offset |-> offset, v |-> 0 ]
        ELSE LET byte_in == r.bytes[1]
                 count == bytesReadCount + 1
             IN IF count > 4
                THEN [ s |-> stop([ r.s EXCEPT !.vlqBad = TRUE ]),
                       offset |-> offset + 1,
                       v |-> (value % 262144) * 128 + byte_in ]
                ELSE IF byte_in >= 128
                     THEN vlqLoopKeepsTopBit(r.s, offset + 1, value * 128 + byte_in, count)
                     ELSE [ s |-> r.s, offset |-> offset + 1,
                            v |-> value * 128 + byte_in ])

\* The loop goes on after a quantity of more than 4 bytes without stop().
RECURSIVE vlqLoopNoStop(_, _, _, _)
vlqLoopNoStop(s, offset, value, bytesReadCount) ==
    With(readBytes(s, offset, 1), LAMBDA r :
        IF r.n # 1
        THEN [ s |-> stop(r.s), offset |-> offset, v |-> 0 ]
        ELSE LET byte_in == r.bytes[1]
                 count == bytesReadCount + 1
             IN IF count > 4
                THEN [ s |-> [ r.s EXCEPT !.vlqBad = TRUE ],
                       offset |-> offset + 1,
                       v |-> (value % 262144) * 128 + (byte_in % 128) ]
                ELSE IF byte_in >= 128
                     THEN vlqLoopNoStop(r.s, offset + 1, value * 128 + (byte_in % 128), count)
                     ELSE [ s |-> r.s, offset |-> offset + 1,
                            v |-> value * 128 + (byte_in % 128) ])

\* The do-while loop of _readVariableLengthQuantity, entered with the value
\* and the number of bytes read so far.  The value of a quantity of more
\* than 4 bytes is returned after stop() and no caller uses it; the model
\* keeps 7 bits less of it than the code's 32.
RECURSIVE vlqLoop(_, _, _, _)
vlqLoop(s, offset, value, bytesReadCount) ==
    With(readBytes(s, offset, 1), LAMBDA r :
        IF r.n # 1
        THEN [ s |-> stop(r.s), offset |-> offset, v |-> 0 ]
        ELSE LET byte_in == r.bytes[1]
                 count == bytesReadCount + 1
             IN IF count > 4
                THEN [ s |-> stop([ r.s EXCEPT !.vlqBad = TRUE ]),
                       offset |-> offset + 1,
                       v |-> (value % 262144) * 128 + (byte_in % 128) ]
                ELSE IF byte_in >= 128
                     THEN vlqLoop(r.s, offset + 1, value * 128 + (byte_in % 128), count)
                     ELSE [ s |-> r.s, offset |-> offset + 1,
                            v |-> value * 128 + (byte_in % 128) ])

readVariableLengthQuantity(s, offset) == vlqLoop(s, offset, 0, 0)

\* ------------------------------------------------------------------------
\* load
\* ------------------------------------------------------------------------
\* The header chunk is accepted without the check of its tag.
headerValidAnyTag(chunkType, headerLength) == ~Lt32(headerLength, 6)

\* The two checks of _parseFileHeader on the first chunk's tag and length.
headerValid(chunkType, headerLength) ==
    /\ ~(chunkType # MTHD_CHUNK_TYPE)
    /\ ~Lt32(headerLength, 6)

\* _parseFileHeader(): the player and the result.  A failed read has called
\* stop(), which the code sees as !_midiFile.
parseFileHeader(s) ==
    With(readUint32BE(s, 0), LAMBDA rType :
    IF ~rType.s.open THEN [ s |-> rType.s, ok |-> FALSE ] ELSE
    With(readUint32BE(rType.s, rType.offset), LAMBDA rLen :
    IF ~rLen.s.open THEN [ s |-> rLen.s, ok |-> FALSE ]
    ELSE IF ~headerValid(rType.v, rLen.v) THEN [ s |-> rLen.s, ok |-> FALSE ] ELSE
    With(readUint16BE(rLen.s, rLen.offset), LAMBDA rFormat :
    IF ~rFormat.s.open THEN [ s |-> rFormat.s, ok |-> FALSE ] ELSE
    With(readUint16BE([ rFormat.s EXCEPT !.format = rFormat.v ], rFormat.offset), LAMBDA rCount :
    IF ~rCount.s.open THEN [ s |-> rCount.s, ok |-> FALSE ] ELSE
    With(readUint16BE([ rCount.s EXCEPT !.trackCount = rCount.v ], rCount.offset), LAMBDA rDiv :
    IF ~rDiv.s.open THEN [ s |-> rDiv.s, ok |-> FALSE ] ELSE
    LET sDiv == [ rDiv.s EXCEPT !.division = IF rDiv.v >= 32768 THEN DefaultDivision ELSE rDiv.v ]
        extraData == Add32(rLen.v, -6)
    IN IF Lt32(0, extraData)
       THEN [ s |-> afterSeek(sDiv), ok |-> seekOk(sDiv) ]
       ELSE [ s |-> sDiv, ok |-> TRUE ])))))

\* The while loop of _prepareTracks that searches the chunk of track i
\* (tracks[i + 1]) from currentOffset on: the player, whether the track was
\* found, and the offset behind its chunk.  Offsets are uint32_t.  s.scan
\* lists the passes of the loop, each as << i, currentOffset >>.  A pass that
\* starts where an earlier pass of the same search started, the storage
\* answering as it did then, is followed by the same passes again: the loop
\* never ends, and the player is returned as it is then, marked "hang".
RECURSIVE findChunk(_, _, _, _)
findChunk(s, i, currentOffset, searchStartOffset) ==
    IF ~Lt32(currentOffset, fileSize(s)) THEN [ s |-> s, ok |-> FALSE, offset |-> currentOffset ]
    ELSE IF Lt32(fileSize(s), Add32(currentOffset, 8))
         THEN [ s |-> s, ok |-> FALSE, offset |-> currentOffset ]
    ELSE IF s.seeks = NoFault /\ \E n \in 1 .. Len(s.scan) : s.scan[n] = << i, currentOffset >>
         THEN [ s |-> [ s EXCEPT !.kind = "hang" ], ok |-> FALSE, offset |-> currentOffset ]
    ELSE
    With(readUint32BE([ s EXCEPT !.scan = Append(@, << i, currentOffset >>) ], currentOffset),
         LAMBDA rType :
    IF ~rType.s.open THEN [ s |-> rType.s, ok |-> FALSE, offset |-> currentOffset ] ELSE
    With(readUint32BE(rType.s, rType.offset), LAMBDA rLen :
    IF ~rLen.s.open THEN [ s |-> rLen.s, ok |-> FALSE, offset |-> currentOffset ] ELSE
    LET next == Add32(rLen.offset, rLen.v)
    IN IF rType.v = MTRK_CHUNK_TYPE
       THEN [ s |-> [ rLen.s EXCEPT !.tracks[i + 1] = TrackInfo(rLen.offset) ],
              ok |-> ~Lt32(fileSize(rLen.s), next),
              offset |-> next ]
       ELSE IF Lt32(fileSize(rLen.s), next)
            THEN [ s |-> rLen.s, ok |-> FALSE, offset |-> next ]
            ELSE IF ~Lt32(searchStartOffset, next) /\ rLen.v = 0
                 THEN [ s |-> rLen.s, ok |-> FALSE, offset |-> next ]
                 ELSE findChunk(rLen.s, i, next, next)))

\* The for loop of _prepareTracks from track i on.
RECURSIVE prepareLoop(_, _, _)
prepareLoop(s, i, currentOffset) ==
    IF ~(i < s.trackCount) THEN [ s |-> s, ok |-> TRUE ]
    ELSE With(findChunk(s, i, currentOffset, currentOffset), LAMBDA r :
             IF ~r.ok THEN [ s |-> r.s, ok |-> FALSE ]
             ELSE prepareLoop(r.s, i + 1, r.offset))

\* _prepareTracks(): the search starts behind a header chunk of 6 data bytes.
prepareTracks(s) ==
    IF s.trackCount = 0 THEN [ s |-> s, ok |-> FALSE ]
    ELSE prepareLoop([ s EXCEPT !.tracks = [ i \in 1 .. s.trackCount |-> TrackInfo(0) ] ],
                     0, 6 + 8)

\* load(filename): the player and the result; from a chunk search that
\* never ends load() does not return and the player stays as the search has
\* it.
load(s, filename) ==
    IF ~Exists(filename) THEN [ s |-> stop(s), ok |-> FALSE ]
    ELSE With(parseFileHeader([ stop(s) EXCEPT !.open = TRUE, !.file = Content(filename) ]),
              LAMBDA h :
         IF ~h.ok THEN [ s |-> stop(h.s), ok |-> FALSE ]
         ELSE With(prepareTracks(h.s), LAMBDA p :
                  IF p.s.kind = "hang" THEN [ s |-> p.s, ok |-> FALSE ]
                  ELSE IF ~p.ok THEN [ s |-> stop(p.s), ok |-> FALSE ]
                  ELSE [ s |-> [ p.s EXCEPT !.state = "STOPPED" ], ok |-> TRUE ]))

\* ------------------------------------------------------------------------
\* play, pause, resume
\* ------------------------------------------------------------------------
\* The for loop of play() from index i on (tracks[i + 1]).  When reading the
\* first delta-time fails, stop() has emptied _tracks: the loop ends
\* (i < _tracks.size() is false) and the value assigned through the stale
\* reference is in no track.
RECURSIVE playLoopKeepsOffset(_, _)
playLoopKeepsOffset(s, i) ==
    IF ~(i < Len(s.tracks)) THEN s
    ELSE LET track == s.tracks[i + 1]
         IN With(readVariableLengthQuantity(s, track.startOffset), LAMBDA r :
                IF ~r.s.open THEN r.s
                ELSE playLoopKeepsOffset(
                         [ r.s EXCEPT !.tracks[i + 1] =
                               [ startOffset |-> track.startOffset,
                                 currentOffset |-> track.startOffset,
                                 nextEventTick |-> r.v,
                                 lastStatusByte |-> 0,
                                 endOfTrackReached |-> FALSE ] ],
                         i + 1))

RECURSIVE playLoop(_, _)
playLoop(s, i) ==
    IF ~(i < Len(s.tracks)) THEN s
    ELSE LET track == s.tracks[i + 1]
         IN With(readVariableLengthQuantity(s, track.startOffset), LAMBDA r :
                IF ~r.s.open THEN r.s
                ELSE playLoop([ r.s EXCEPT !.tracks[i + 1] =
                                    [ startOffset |-> track.startOffset,
                                      currentOffset |-> r.offset,
                                      nextEventTick |-> r.v,
                                      lastStatusByte |-> 0,
                                      endOfTrackReached |-> FALSE ] ],
                              i + 1))

\* play() that starts from the beginning in PAUSED as in STOPPED.
playAlwaysRestarts(s, now) ==
    IF ~s.open THEN s
    ELSE IF s.state \in { "STOPPED", "PAUSED" }
         THEN [ playLoop([ s EXCEPT !.currentTick = 0, !.finishedTracks = 0 ], 0)
                  EXCEPT !.playbackStartMicros = now, !.lastEventMicros = now,
                         !.state = "PLAYING" ]
         ELSE s

\* play() with micros() = now
play(s, now) ==
    IF ~s.open THEN s
    ELSE IF s.state = "STOPPED"
         THEN [ playLoop([ s EXCEPT !.currentTick = 0, !.finishedTracks = 0 ], 0)
                  EXCEPT !.playbackStartMicros = now, !.lastEventMicros = now,
                         !.state = "PLAYING" ]
         ELSE IF s.state = "PAUSED"
              THEN LET pausedDuration == (now - s.pauseStartMicros) % WideMod
                   IN [ s EXCEPT !.playbackStartMicros = (@ + pausedDuration) % WideMod,
                                 !.lastEventMicros = (@ + pausedDuration) % WideMod,
                                 !.state = "PLAYING" ]
              ELSE s

\* pause() that does not record the instant of the pause.
pauseForgetsInstant(s, now) ==
    IF s.state = "PLAYING" THEN [ s EXCEPT !.state = "PAUSED" ] ELSE s

pause(s, now) ==
    IF s.state = "PLAYING"
    THEN [ s EXCEPT !.state = "PAUSED", !.pauseStartMicros = now ]
    ELSE s

\* resume() that calls play() in every state.
resumeFromAny(s, now) == play(s, now)

resume(s, now) == IF s.state = "PAUSED" THEN play(s, now) ELSE s

\* ------------------------------------------------------------------------
\* Callbacks and event handlers
\* ------------------------------------------------------------------------
\* Every track of the loaded file is marked finished.
allFinished(s) ==
    /\ s.tracks # << >>
    /\ \A k \in 1 .. Len(s.tracks) : s.tracks[k].endOfTrackReached

\* A registered callback is called: the call is recorded with the track and
\* the tick of the event it belongs to.  The callback is code of the
\* application: s.hook is the number of callbacks that return before one of
\* them calls stop() (NoFault: none does); that call is recorded too.
callback(s, cb, trk, eventTick, args) ==
    LET entry == [ cb |-> cb, trk |-> trk, tick |-> eventTick,
                   args |-> args, all |-> allFinished(s) ]
    IN IF s.hook = 0
       THEN [ stop(s) EXCEPT !.log = s.log \o << entry, [ entry EXCEPT !.cb = "stop()" ] >>,
                             !.hook = NoFault ]
       ELSE [ s EXCEPT !.log = Append(@, entry),
                       !.hook = IF @ > 0 THEN @ - 1 ELSE @ ]

\* track.currentOffset of track i, and the assignment to it.  After stop()
\* the reference is stale: _tracks is empty and the assignment is in no track.
trackOffset(s, i) == s.tracks[i + 1].currentOffset
setTrackOffset(s, i, offset) ==
    IF s.open THEN [ s EXCEPT !.tracks[i + 1].currentOffset = offset ] ELSE s

\* A note-on is delivered as NoteOn whatever its velocity.
midiCallbackNoteOnAlways(s, i, eventTick, command, channel, data1, data2) ==
    CASE command = 128 -> callback(s, "NoteOff", i, eventTick, << channel, data1, data2 >>)
      [] command = 144 -> callback(s, "NoteOn", i, eventTick, << channel, data1, data2 >>)
      [] command = 176 -> callback(s, "ControlChange", i, eventTick, << channel, data1, data2 >>)
      [] command = 192 -> callback(s, "ProgramChange", i, eventTick, << channel, data1 >>)
      [] command = 224 ->
            callback(s, "PitchBend", i, eventTick,
                     << channel, ((data2 % 128) * 128 + (data1 % 128)) - 8192 >>)
      [] OTHER -> s

\* The second switch of _handleMidiEvent: the callback of a channel message.
midiCallback(s, i, eventTick, command, channel, data1, data2) ==
    CASE command = 128 -> callback(s, "NoteOff", i, eventTick, << channel, data1, data2 >>)
      [] command = 144 ->
            IF data2 = 0
            THEN callback(s, "NoteOff", i, eventTick, << channel, data1, 0 >>)
            ELSE callback(s, "NoteOn", i, eventTick, << channel, data1, data2 >>)
      [] command = 176 -> callback(s, "ControlChange", i, eventTick, << channel, data1, data2 >>)
      [] command = 192 -> callback(s, "ProgramChange", i, eventTick, << channel, data1 >>)
      [] command = 224 ->
            callback(s, "PitchBend", i, eventTick,
                     << channel, ((data2 % 128) * 128 + (data1 % 128)) - 8192 >>)
      [] OTHER -> s

\* The first data byte is read from the file also under running status.
handleMidiEventRereadsData1(s, i, statusByte, runningStatusUsed, data1_val, eventTick) ==
    LET command == (statusByte \div 16) * 16
        channel == statusByte % 16
    IN IF command \notin { 128, 144, 160, 176, 224, 192, 208 } THEN s
       ELSE
       With(readUint8(s, trackOffset(s, i)), LAMBDA r1 :
       IF ~r1.s.open THEN r1.s
       ELSE IF command \in { 192, 208 }
            THEN midiCallback(setTrackOffset(r1.s, i, r1.offset), i, eventTick,
                              command, channel, r1.v, 0)
            ELSE With(readUint8(setTrackOffset(r1.s, i, r1.offset), r1.offset), LAMBDA r2 :
                     IF ~r2.s.open THEN r2.s
                     ELSE midiCallback(setTrackOffset(r2.s, i, r2.offset), i, eventTick,
                                       command, channel, r1.v, r2.v)))

\* _handleMidiEvent(trackIndex, statusByte, track.currentOffset,
\* runningStatusUsed, data1_val) for the event of tick eventTick.
handleMidiEvent(s, i, statusByte, runningStatusUsed, data1_val, eventTick) ==
    LET command == (statusByte \div 16) * 16
        channel == statusByte % 16
    IN IF command \notin { 128, 144, 160, 176, 224, 192, 208 } THEN s
       ELSE
       With(IF runningStatusUsed
            THEN [ s |-> s, offset |-> trackOffset(s, i), v |-> data1_val ]
            ELSE readUint8(s, trackOffset(s, i)), LAMBDA r1 :
       IF ~r1.s.open THEN r1.s
       ELSE IF command \in { 192, 208 }
            THEN midiCallback(setTrackOffset(r1.s, i, r1.offset), i, eventTick,
                              command, channel, r1.v, 0)
            ELSE With(readUint8(setTrackOffset(r1.s, i, r1.offset), r1.offset), LAMBDA r2 :
                     IF ~r2.s.open THEN r2.s
                     ELSE midiCallback(setTrackOffset(r2.s, i, r2.offset), i, eventTick,
                                       command, channel, r1.v, r2.v)))

\* A seek outside _readBytes (the skip of an unhandled meta event or of a
\* SysEx block to offset): beyond the file's size, or a failed seek, stops.
skipTo(s, offset) ==
    IF offset > fileSize(s) THEN stop(s)
    ELSE IF ~seekOk(s) THEN stop([ s EXCEPT !.ioFailed = TRUE ])
    ELSE afterSeek(s)

\* char nameBuffer[length + 1] of the track-name case lies on the stack of
\* the calling task.  Beyond the stack the behaviour is undefined; s.vla is
\* the outcome the build produces: the call returns as if the buffer had
\* fitted, or the overwritten memory ends in a restart, after which the
\* player is as constructed and nothing more is called.
vlaOverflow(s, length) == length + 1 > StackBytes /\ s.vla = "restart"
restart(s) == [ stop(s) EXCEPT !.kind = "restart" ]

\* The switch takes a tempo of 0 like every other.
metaSwitchTakesZeroTempo(s, i, ti, eventTick, metaType, length, dataOffset) ==
    CASE metaType = META_END_OF_TRACK ->
            With(IF ~s.tracks[ti + 1].endOfTrackReached
                 THEN callback([ s EXCEPT !.tracks[ti + 1].endOfTrackReached = TRUE,
                                          !.finishedTracks = (@ + 1) % CountMod ],
                               "EndOfTrack", ti, eventTick, << ti >>)
                 ELSE s, LAMBDA sE :
                IF length > 0 THEN setTrackOffset(sE, i, dataOffset + length) ELSE sE)
      [] metaType = META_TEMPO ->
            IF length = 3
            THEN With(readBytes(s, dataOffset, 3), LAMBDA r :
                     IF r.n = 3
                     THEN LET newTempo == (r.bytes[1] * 256 + r.bytes[2]) * 256 + r.bytes[3]
                              sT == setTrackOffset(r.s, i, dataOffset + 3)
                          IN callback([ sT EXCEPT !.microsecondsPerQuarterNote = newTempo ],
                                      "TempoChange", ti, eventTick, << newTempo >>)
                     ELSE setTrackOffset(r.s, i, dataOffset + length))
            ELSE setTrackOffset(s, i, dataOffset + length)
      [] metaType = META_TIME_SIGNATURE ->
            IF length = 4
            THEN With(readBytes(s, dataOffset, 4), LAMBDA r :
                     IF r.n = 4
                     THEN callback(setTrackOffset(r.s, i, dataOffset + 4),
                                   "TimeSignature", ti, eventTick,
                                   IF r.bytes[1] = 0
                                   THEN << 4, 2, r.bytes[3], r.bytes[4] >>
                                   ELSE << r.bytes[1], r.bytes[2], r.bytes[3], r.bytes[4] >>)
                     ELSE setTrackOffset(r.s, i, dataOffset + length))
            ELSE setTrackOffset(s, i, dataOffset + length)
      [] metaType = META_TRACK_NAME ->
            IF vlaOverflow(s, length) THEN restart(s)
            ELSE IF length > 0
            THEN setTrackOffset(readBytes(s, dataOffset, length).s, i, dataOffset + length)
            ELSE s
      [] OTHER ->
            skipTo(setTrackOffset(s, i, dataOffset + length), dataOffset + length)

\* The switch of _handleMetaEvent for an event of type metaType and declared
\* length, whose data start at dataOffset.  The handler gets the track index
\* as uint8_t (ti); trackOffset stays the reference to track i's offset.
metaSwitch(s, i, ti, eventTick, metaType, length, dataOffset) ==
    CASE metaType = META_END_OF_TRACK ->
            With(IF ~s.tracks[ti + 1].endOfTrackReached
                 THEN callback([ s EXCEPT !.tracks[ti + 1].endOfTrackReached = TRUE,
                                          !.finishedTracks = (@ + 1) % CountMod ],
                               "EndOfTrack", ti, eventTick, << ti >>)
                 ELSE s, LAMBDA sE :
                IF length > 0 THEN setTrackOffset(sE, i, dataOffset + length) ELSE sE)
      [] metaType = META_TEMPO ->
            IF length = 3
            THEN With(readBytes(s, dataOffset, 3), LAMBDA r :
                     IF r.n = 3
                     THEN LET newTempo == (r.bytes[1] * 256 + r.bytes[2]) * 256 + r.bytes[3]
                              sT == setTrackOffset(r.s, i, dataOffset + 3)
                          IN IF newTempo = 0 THEN sT
                             ELSE callback([ sT EXCEPT !.microsecondsPerQuarterNote = newTempo ],
                                           "TempoChange", ti, eventTick, << newTempo >>)
                     ELSE setTrackOffset(r.s, i, dataOffset + length))
            ELSE setTrackOffset(s, i, dataOffset + length)
      [] metaType = META_TIME_SIGNATURE ->
            IF length = 4
            THEN With(readBytes(s, dataOffset, 4), LAMBDA r :
                     IF r.n = 4
                     THEN callback(setTrackOffset(r.s, i, dataOffset + 4),
                                   "TimeSignature", ti, eventTick,
                                   IF r.bytes[1] = 0
                                   THEN << 4, 2, r.bytes[3], r.bytes[4] >>
                                   ELSE << r.bytes[1], r.bytes[2], r.bytes[3], r.bytes[4] >>)
                     ELSE setTrackOffset(r.s, i, dataOffset + length))
            ELSE setTrackOffset(s, i, dataOffset + length)
      [] metaType = META_TRACK_NAME ->
            IF vlaOverflow(s, length) THEN restart(s)
            ELSE IF length > 0
            THEN setTrackOffset(readBytes(s, dataOffset, length).s, i, dataOffset + length)
            ELSE s
      [] OTHER ->
            skipTo(setTrackOffset(s, i, dataOffset + length), dataOffset + length)

\* _handleMetaEvent(trackIndex, track.currentOffset) for the event of tick
\* eventTick on track i.
handleMetaEvent(s, i, eventTick) ==
    With(readUint8(s, trackOffset(s, i)), LAMBDA rType :
    IF ~rType.s.open THEN rType.s ELSE
    With(readVariableLengthQuantity(setTrackOffset(rType.s, i, rType.offset), rType.offset),
         LAMBDA rLen :
    IF ~rLen.s.open THEN rLen.s ELSE
    With(metaSwitch(setTrackOffset(rLen.s, i, rLen.offset), i, i % 256, eventTick,
                    rType.v, rLen.v, rLen.offset), LAMBDA sw :
    IF ~sw.open THEN sw
    ELSE IF trackOffset(sw, i) < rLen.offset + rLen.v
         THEN setTrackOffset(sw, i, rLen.offset + rLen.v)
         ELSE sw)))

\* _handleSysexEvent(trackIndex, type, track.currentOffset)
handleSysexEvent(s, i) ==
    With(readVariableLengthQuantity(s, trackOffset(s, i)), LAMBDA rLen :
    IF ~rLen.s.open THEN rLen.s ELSE
    With(skipTo(setTrackOffset(rLen.s, i, rLen.offset + rLen.v), rLen.offset + rLen.v),
         LAMBDA sk :
    IF ~sk.open THEN sk
    ELSE [ sk EXCEPT !.tracks[(i % 256) + 1].lastStatusByte = 0 ]))

\* ------------------------------------------------------------------------
\* tick
\* ------------------------------------------------------------------------
\* The sync point moves to now: the time behind the last whole tick is
\* dropped.
advanceTickTimeResync(s, now) ==
    LET deltaMicros == IF now >= s.lastEventMicros
                       THEN now - s.lastEventMicros
                       ELSE (WideMod - s.lastEventMicros) + now
        div == IF s.division = 0 THEN DefaultDivision ELSE s.division
        tempo == s.microsecondsPerQuarterNote
        ticksElapsed == MulDiv(deltaMicros, div, tempo)
        sD == [ s EXCEPT !.division = div ]
    IN IF tempo > 0 /\ ticksElapsed > 0
       THEN [ sD EXCEPT !.currentTick = @ + ticksElapsed, !.lastEventMicros = now ]
       ELSE sD

\* The sync point moves to now and no tick is counted.
advanceTickTimeCountsNothing(s, now) == [ s EXCEPT !.lastEventMicros = now ]

\* _advanceTickTime() with micros() = now.  microsPerTick is the double
\* _microsecondsPerQuarterNote / _division; the model computes the two
\* conversions exactly, as floor(deltaMicros * division / tempo) and
\* floor(ticksElapsed * tempo / division).
advanceTickTime(s, now) ==
    LET deltaMicros == IF now >= s.lastEventMicros
                       THEN now - s.lastEventMicros
                       ELSE (WideMod - s.lastEventMicros) + now
        div == IF s.division = 0 THEN DefaultDivision ELSE s.division
        tempo == s.microsecondsPerQuarterNote
        ticksElapsed == MulDiv(deltaMicros, div, tempo)
        sD == [ s EXCEPT !.division = div ]
    IN IF tempo > 0 /\ ticksElapsed > 0
       THEN [ sD EXCEPT !.currentTick = @ + ticksElapsed,
                        !.lastEventMicros = (@ + MulDiv(ticksElapsed, tempo, div)) % WideMod ]
       ELSE sD

\* The for loop of _findTrackWithNextEvent from index i on, with the best
\* track found so far (NoTrack: none; then earliestTick is UINT64_MAX, which
\* every tick of the model is below).
\* As findLoop, but a finished track is a candidate like the others.
RECURSIVE findLoopTakesFinished(_, _, _, _)
findLoopTakesFinished(trks, i, nextTrack, earliestTick) ==
    IF ~(i < Len(trks)) THEN nextTrack
    ELSE IF nextTrack = NoTrack \/ trks[i + 1].nextEventTick < earliestTick
         THEN findLoopTakesFinished(trks, i + 1, i, trks[i + 1].nextEventTick)
         ELSE findLoopTakesFinished(trks, i + 1, nextTrack, earliestTick)

RECURSIVE findLoop(_, _, _, _)
findLoop(trks, i, nextTrack, earliestTick) ==
    IF ~(i < Len(trks)) THEN nextTrack
    ELSE IF /\ ~trks[i + 1].endOfTrackReached
            /\ (nextTrack = NoTrack \/ trks[i + 1].nextEventTick < earliestTick)
         THEN findLoop(trks, i + 1, i, trks[i + 1].nextEventTick)
         ELSE findLoop(trks, i + 1, nextTrack, earliestTick)

\* As findLoop, but a track with the same tick replaces the one found.
RECURSIVE findLoopLastWins(_, _, _, _)
findLoopLastWins(trks, i, nextTrack, earliestTick) ==
    IF ~(i < Len(trks)) THEN nextTrack
    ELSE IF /\ ~trks[i + 1].endOfTrackReached
            /\ (nextTrack = NoTrack \/ trks[i + 1].nextEventTick <= earliestTick)
         THEN findLoopLastWins(trks, i + 1, i, trks[i + 1].nextEventTick)
         ELSE findLoopLastWins(trks, i + 1, nextTrack, earliestTick)

findTrackWithNextEventLastWins(trks) == findLoopLastWins(trks, 0, NoTrack, 0)

\* _findTrackWithNextEvent(): the index of the track, or NoTrack (-1).
findTrackWithNextEvent(trks) == findLoop(trks, 0, NoTrack, 0)

\* The next event is scheduled relative to the current tick.
readNextDeltaFromCurrentTick(s, i, eventTick) ==
    IF ~s.open THEN s
    ELSE IF s.tracks[i + 1].endOfTrackReached THEN s
    ELSE With(readVariableLengthQuantity(s, trackOffset(s, i)), LAMBDA r :
             IF ~r.s.open THEN r.s
             ELSE [ r.s EXCEPT !.tracks[i + 1].currentOffset = r.offset,
                               !.tracks[i + 1].nextEventTick = s.currentTick + r.v ])

\* The end of _processNextEvent: the delta-time of the next event of track i
\* is read unless the track has ended.  After stop() track is a stale
\* reference: whatever its flag reads, the file is closed, the read fails
\* and nothing changes.
\* The offset of the track goes back to the start of its chunk.
readNextDeltaRewinds(s, i, eventTick) ==
    IF ~s.open THEN s
    ELSE IF s.tracks[i + 1].endOfTrackReached THEN s
    ELSE With(readVariableLengthQuantity(s, trackOffset(s, i)), LAMBDA r :
             IF ~r.s.open THEN r.s
             ELSE [ r.s EXCEPT !.tracks[i + 1].currentOffset = s.tracks[i + 1].startOffset,
                               !.tracks[i + 1].nextEventTick = eventTick + r.v ])

\* The next delta-time is read for a finished track too.
readNextDeltaAfterEnd(s, i, eventTick) ==
    IF ~s.open THEN s
    ELSE With(readVariableLengthQuantity(s, trackOffset(s, i)), LAMBDA r :
             IF ~r.s.open THEN r.s
             ELSE [ r.s EXCEPT !.tracks[i + 1].currentOffset = r.offset,
                               !.tracks[i + 1].nextEventTick = eventTick + r.v ])

readNextDelta(s, i, eventTick) ==
    IF ~s.open THEN s
    ELSE IF s.tracks[i + 1].endOfTrackReached THEN s
    ELSE With(readVariableLengthQuantity(s, trackOffset(s, i)), LAMBDA r :
             IF ~r.s.open THEN r.s
             ELSE [ r.s EXCEPT !.tracks[i + 1].currentOffset = r.offset,
                               !.tracks[i + 1].nextEventTick = eventTick + r.v ])

\* The track is counted twice.
runningStatusErrorCountedTwice(s, i) ==
    [ s EXCEPT !.tracks[i + 1].endOfTrackReached = TRUE,
               !.finishedTracks = (@ + 2) % CountMod,
               !.kind = "runningStatusError" ]

\* The track is marked finished but not counted.
runningStatusErrorNotCounted(s, i) ==
    [ s EXCEPT !.tracks[i + 1].endOfTrackReached = TRUE,
               !.kind = "runningStatusError" ]

\* _processNextEvent, the running status error: a data byte came first and
\* track i has no channel status to reuse.
runningStatusError(s, i) ==
    [ s EXCEPT !.tracks[i + 1].endOfTrackReached = TRUE,
               !.finishedTracks = (@ + 1) % CountMod,
               !.kind = "runningStatusError" ]

\* A system message of 0xF8 .. 0xFE leaves the running status.
processNextEventSystemKeepsStatus(s) ==
    With(findTrackWithNextEvent(s.tracks), LAMBDA i :
    IF i < 0 THEN [ s EXCEPT !.kind = "none" ] ELSE
    With(readUint8(s, s.tracks[i + 1].currentOffset), LAMBDA rFirst :
    IF ~rFirst.s.open THEN [ rFirst.s EXCEPT !.kind = "readFailed" ] ELSE
    LET track == s.tracks[i + 1]
        eventTick == track.nextEventTick
        firstByte == rFirst.v
        sFirst == setTrackOffset(rFirst.s, i, rFirst.offset)
        runningStatus == firstByte < 128
        statusByte == IF runningStatus THEN track.lastStatusByte ELSE firstByte
        \* a new status byte: running status is updated
        sStatus == IF runningStatus THEN sFirst
                   ELSE IF firstByte >= 128 /\ firstByte <= 239
                        THEN [ sFirst EXCEPT !.tracks[i + 1].lastStatusByte = firstByte ]
                        ELSE IF firstByte >= 240 /\ firstByte <= 247
                             THEN [ sFirst EXCEPT !.tracks[i + 1].lastStatusByte = 0 ]
                             ELSE sFirst
    IN IF /\ runningStatus
          /\ \/ track.lastStatusByte = 0
             \/ track.lastStatusByte < 128
             \/ track.lastStatusByte >= 240
       THEN runningStatusError(sFirst, i)
       ELSE readNextDelta(
                IF statusByte = META_EVENT
                THEN handleMetaEvent([ sStatus EXCEPT !.kind = "meta" ], i, eventTick)
                ELSE IF statusByte = SYSEX_START \/ statusByte = SYSEX_END
                     THEN handleSysexEvent([ sStatus EXCEPT !.kind = "sysex" ], i)
                ELSE IF statusByte >= 128 /\ statusByte <= 239
                     THEN handleMidiEvent(
                              [ sStatus EXCEPT !.kind = IF runningStatus THEN "running"
                                                        ELSE "status" ],
                              i, statusByte, runningStatus,
                              IF runningStatus THEN firstByte ELSE 0, eventTick)
                ELSE [ sStatus EXCEPT !.kind = "system" ],
                i, eventTick)))

\* _processNextEvent()
processNextEvent(s) ==
    With(findTrackWithNextEvent(s.tracks), LAMBDA i :
    IF i < 0 THEN [ s EXCEPT !.kind = "none" ] ELSE
    With(readUint8(s, s.tracks[i + 1].currentOffset), LAMBDA rFirst :
    IF ~rFirst.s.open THEN [ rFirst.s EXCEPT !.kind = "readFailed" ] ELSE
    LET track == s.tracks[i + 1]
        eventTick == track.nextEventTick
        firstByte == rFirst.v
        sFirst == setTrackOffset(rFirst.s, i, rFirst.offset)
        runningStatus == firstByte < 128
        statusByte == IF runningStatus THEN track.lastStatusByte ELSE firstByte
        \* a new status byte: running status is updated
        sStatus == IF runningStatus THEN sFirst
                   ELSE IF firstByte >= 128 /\ firstByte <= 239
                        THEN [ sFirst EXCEPT !.tracks[i + 1].lastStatusByte = firstByte ]
                        ELSE IF firstByte >= 240 /\ firstByte <= 247
                             THEN [ sFirst EXCEPT !.tracks[i + 1].lastStatusByte = 0 ]
                             ELSE sFirst
    IN IF /\ runningStatus
          /\ \/ track.lastStatusByte = 0
             \/ track.lastStatusByte < 128
             \/ track.lastStatusByte >= 240
       THEN runningStatusError(sFirst, i)
       ELSE readNextDelta(
                IF statusByte = META_EVENT
                THEN handleMetaEvent([ sStatus EXCEPT !.kind = "meta" ], i, eventTick)
                ELSE IF statusByte = SYSEX_START \/ statusByte = SYSEX_END
                     THEN handleSysexEvent([ sStatus EXCEPT !.kind = "sysex" ], i)
                ELSE IF statusByte >= 128 /\ statusByte <= 239
                     THEN handleMidiEvent(
                              [ sStatus EXCEPT !.kind = IF runningStatus THEN "running"
                                                        ELSE "status" ],
                              i, statusByte, runningStatus,
                              IF runningStatus THEN firstByte ELSE 0, eventTick)
                ELSE [ sStatus EXCEPT !.tracks[i + 1].lastStatusByte = 0,
                                      !.kind = "system" ],
                i, eventTick)))

\* What an entry of trace keeps of the player.
Snap(s) ==
    [ state |-> s.state, open |-> s.open, tracks |-> s.tracks,
      finishedTracks |-> s.finishedTracks, nlog |-> Len(s.log),
      tempo |-> s.microsecondsPerQuarterNote ]

\* The byte of the file at the offset of track i (-1 behind the file's end).
nextByte(s, i) ==
    IF trackOffset(s, i) < fileSize(s) THEN s.file[trackOffset(s, i) + 1] ELSE -1

\* The call of _processNextEvent in tick(), recorded in trace.
processRecorded(s) ==
    With(findTrackWithNextEvent(s.tracks), LAMBDA i :
    With(processNextEvent(s), LAMBDA s1 :
        [ s1 EXCEPT !.trace = Append(@, [ trk |-> i,
                                          tick |-> s.tracks[i + 1].nextEventTick,
                                          first |-> nextByte(s, i),
                                          kind |-> s1.kind,
                                          pre |-> Snap(s),
                                          post |-> Snap(s1) ]),
                    !.finishedAll = @ \/ allFinished(s1) ]))

\* The callback is called, but playback is not stopped.
completionCheckNoStop(s) ==
    IF s.finishedTracks >= s.trackCount
    THEN [ s |-> callback(s, "PlaybackComplete", NoTrack, s.currentTick, << >>),
           again |-> FALSE ]
    ELSE [ s |-> s, again |-> TRUE ]

\* The counter is compared with > instead of >=.
completionCheckStrict(s) ==
    IF s.finishedTracks > s.trackCount
    THEN [ s |-> stop(callback(s, "PlaybackComplete", NoTrack, s.currentTick, << >>)),
           again |-> FALSE ]
    ELSE [ s |-> s, again |-> TRUE ]

\* The completion check of tick() after an event: the player, and whether
\* the loop goes on.
completionCheck(s) ==
    IF s.kind = "restart" THEN [ s |-> s, again |-> FALSE ]
    ELSE IF s.finishedTracks >= s.trackCount
    THEN [ s |-> stop(callback(s, "PlaybackComplete", NoTrack, s.currentTick, << >>)),
           again |-> FALSE ]
    ELSE [ s |-> s, again |-> TRUE ]

\* The loop leaves an event whose tick is the current tick for later.
RECURSIVE tickLoopLate(_)
tickLoopLate(s) ==
    With(findTrackWithNextEvent(s.tracks), LAMBDA nextTrackIdx :
        IF nextTrackIdx < 0 THEN s
        ELSE IF s.tracks[nextTrackIdx + 1].nextEventTick >= s.currentTick THEN s
        ELSE With(completionCheck(processRecorded(s)), LAMBDA c :
                 IF c.again THEN tickLoopLate(c.s) ELSE c.s))

\* The while loop of tick()
RECURSIVE tickLoop(_)
tickLoop(s) ==
    With(findTrackWithNextEvent(s.tracks), LAMBDA nextTrackIdx :
        IF nextTrackIdx < 0 THEN s
        ELSE IF s.tracks[nextTrackIdx + 1].nextEventTick > s.currentTick THEN s
        ELSE With(completionCheck(processRecorded(s)), LAMBDA c :
                 IF c.again THEN tickLoop(c.s) ELSE c.s))

\* tick() without the check of the state.
tickAnyState(s, now) == tickLoop(advanceTickTime(s, now))

\* tick() with micros() = now
tick(s, now) ==
    IF s.state # "PLAYING" THEN s
    ELSE tickLoop(advanceTickTime(s, now))

\* ------------------------------------------------------------------------
\* The specification
\* ------------------------------------------------------------------------
Faults == { NoFault } \cup (0 .. MaxFault - 1)

\* No quantity has been probed; there is no second player.
NoProbe ==
    [ step |-> 0, value |-> 0, start |-> 0, long |-> << >>, v |-> 0, offset |-> 0,
      vla |-> "returns" ]
NoTwin == [ on |-> FALSE ]

Init ==
    /\ state = "STOPPED"
    /\ open = FALSE
    /\ file = << >>
    /\ format = 0
    /\ trackCount = 0
    /\ division = DefaultDivision
    /\ microsecondsPerQuarterNote = DefaultTempo
    /\ currentTick = 0
    /\ playbackStartMicros = 0
    /\ lastEventMicros = 0
    /\ pauseStartMicros = 0
    /\ tracks = << >>
    /\ finishedTracks = 0
    /\ clock = 0
    /\ log = << >>
    /\ trace = << >>
    /\ ioFailed = FALSE
    /\ vlqBad = FALSE
    /\ finishedAll = FALSE
    /\ lastLoad = [ arg |-> "", from |-> "", ret |-> TRUE ]
    /\ probe = NoProbe
    /\ twin = NoTwin

\* The fields of the player after a call
Commit(r) ==
    /\ state' = r.state
    /\ open' = r.open
    /\ file' = r.file
    /\ format' = r.format
    /\ trackCount' = r.trackCount
    /\ division' = r.division
    /\ microsecondsPerQuarterNote' = r.microsecondsPerQuarterNote
    /\ currentTick' = r.currentTick
    /\ playbackStartMicros' = r.playbackStartMicros
    /\ lastEventMicros' = r.lastEventMicros
    /\ pauseStartMicros' = r.pauseStartMicros
    /\ tracks' = r.tracks
    /\ finishedTracks' = r.finishedTracks

Load(filename, fault) ==
    \E r \in { load(Player(fault), filename) } :
       /\ Commit(r.s)
       /\ log' = << >>
       /\ trace' = << >>
       /\ ioFailed' = FALSE
       /\ vlqBad' = FALSE
       /\ finishedAll' = FALSE
       /\ lastLoad' = [ arg |-> filename, from |-> IF r.ok THEN "" ELSE state, ret |-> r.ok ]
       /\ UNCHANGED << clock, auxVars >>

Play(fault) ==
    \E r \in { play(Player(fault), clock) } :
       LET starts == open /\ state = "STOPPED"
       IN /\ Commit(r)
          /\ log' = IF starts THEN << >> ELSE log
          /\ trace' = IF starts THEN << >> ELSE trace
          /\ UNCHANGED << clock, ioFailed, vlqBad, finishedAll, lastLoad, auxVars >>

Pause ==
    /\ Commit(pause(Player(NoFault), clock))
    /\ UNCHANGED << clock, log, trace, ioFailed, vlqBad, finishedAll, lastLoad, auxVars >>

Resume ==
    /\ Commit(resume(Player(NoFault), clock))
    /\ UNCHANGED << clock, log, trace, ioFailed, vlqBad, finishedAll, lastLoad, auxVars >>

Stop ==
    /\ Commit(stop(Player(NoFault)))
    /\ ioFailed' = FALSE
    /\ vlqBad' = FALSE
    /\ finishedAll' = FALSE
    /\ log' = << >>
    /\ trace' = << >>
    /\ UNCHANGED << clock, lastLoad, auxVars >>

Tick(fault) ==
    \E r \in { tick(Player(fault), clock) } :
       /\ Commit(r)
       /\ log' = r.log
       /\ trace' = r.trace
       /\ ioFailed' = r.ioFailed
       /\ vlqBad' = r.vlqBad
       /\ finishedAll' = r.finishedAll
       /\ UNCHANGED << clock, lastLoad, auxVars >>

\* Time passes.
ClockAdvance ==
    /\ clock + ClockStep <= MaxClock
    /\ clock' = (clock + ClockStep) % ClockMod
    /\ UNCHANGED << progVars, histVars, auxVars >>

Next ==
    \/ \E f \in FileNames, fault \in Faults : Load(f, fault)
    \/ \E fault \in Faults : Play(fault)
    \/ Pause
    \/ Resume
    \/ Stop
    \/ \E fault \in Faults : Tick(fault)
    \/ ClockAdvance

Spec == Init /\ [][Next]_vars

\* ------------------------------------------------------------------------
\* Properties
\* ------------------------------------------------------------------------
TickStep == \E fault \in Faults : Tick(fault)

\* The callbacks of kind cb in the log
Delivered(cb) == { n \in 1 .. Len(log) : log[n].cb = cb }

\* The note callbacks of the log, each as << track, tick >>, in log order
RECURSIVE NotesOf(_)
NotesOf(l) ==
    IF l = << >> THEN << >>
    ELSE LET rest == NotesOf(SubSeq(l, 1, Len(l) - 1))
             e == l[Len(l)]
         IN IF e.cb \in { "NoteOn", "NoteOff" }
            THEN Append(rest, << e.trk, e.tick >>)
            ELSE rest

IsPrefix(a, b) == Len(a) <= Len(b) /\ a = SubSeq(b, 1, Len(a))

\* C1: the events processed by tick() in one playback are in non-decreasing
\* order of their due ticks, and of two events of different tracks due at the
\* same tick the one of the lower track index is processed first.
C1_ProcessedInTickThenTrackOrder ==
    \A a, b \in 1 .. Len(trace) :
        a < b =>
            /\ trace[a].tick <= trace[b].tick
            /\ (trace[a].tick = trace[b].tick => trace[a].trk <= trace[b].trk)

\* C1 witness: events of two tracks due at the same tick have been
\* processed, and an event of a later tick after them.
C1_Witness ==
    \E a, b, c \in 1 .. Len(trace) :
        /\ a < b /\ b < c
        /\ trace[a].tick = trace[b].tick
        /\ trace[a].trk < trace[b].trk
        /\ trace[b].tick < trace[c].tick

ExpectedTwo == << << 0, 0 >>, << 1, 5 >>, << 0, 10 >>, << 1, 15 >>, << 0, 20 >> >>

\* C2: playing the file with track 0 notes at ticks 0, 10, 20 and track 1
\* notes at ticks 5, 15, the notes are delivered in the order track0@0,
\* track1@5, track0@10, track1@15, track0@20 whatever the spacing of the
\* tick() calls, and, while no read of the storage fails, PlaybackComplete
\* is delivered after all five and is the last callback.
C2_TwoTrackOrder ==
    (lastLoad.arg = "two" /\ lastLoad.ret) =>
        /\ IsPrefix(NotesOf(log), ExpectedTwo)
        /\ (Delivered("PlaybackComplete") # {} /\ ~ioFailed) =>
              /\ NotesOf(log) = ExpectedTwo
              /\ log[Len(log)].cb = "PlaybackComplete"
              /\ Cardinality(Delivered("PlaybackComplete")) = 1

\* C2 witness: the file was played to its end.
C2_Witness ==
    /\ lastLoad.arg = "two"
    /\ NotesOf(log) = ExpectedTwo
    /\ Delivered("PlaybackComplete") # {}
    /\ ~ioFailed

\* C3: when tick() returns with the controller PLAYING, every unfinished
\* track is due after currentTick, and every event the call processed was
\* due at or before currentTick.
C3_TickDeliversExactlyTheDue ==
    [][ (state = "PLAYING" /\ state' = "PLAYING" /\ TickStep) =>
            /\ \A k \in 1 .. Len(tracks') :
                   ~tracks'[k].endOfTrackReached => tracks'[k].nextEventTick > currentTick'
            /\ \A n \in (Len(trace) + 1) .. Len(trace') :
                   trace'[n].tick <= currentTick' ]_vars

\* C3 witness: tick() has processed events, the controller is PLAYING and a
\* track is left with an event due later.
C3_Witness ==
    /\ state = "PLAYING"
    /\ Len(trace) >= 2
    /\ currentTick > 0
    /\ \E k \in 1 .. Len(tracks) :
           ~tracks[k].endOfTrackReached /\ tracks[k].nextEventTick > currentTick

Stopped == state = "STOPPED" /\ ~open /\ tracks = << >>

C6_CompleteOnlyWhenAllFinished ==
    \A n \in Delivered("PlaybackComplete") : log[n].all

\* C7 as claimed: after a truncated read or a seek failure in tick() the
\* controller is in a state ERROR.
C7_ErrorState == ioFailed => state = "ERROR"

\* C7 as amended: a truncated read or a seek failure in tick() leaves the
\* controller STOPPED with the file closed and the track list empty (there
\* is no ERROR state), and no callback is delivered by later calls until
\* load().
C7_StoppedAfterReadFailure ==
    [][ /\ ioFailed' => (state' = "STOPPED" /\ ~open' /\ tracks' = << >>)
        /\ (ioFailed /\ ioFailed') => log' = log ]_vars

\* C7 witness: a read failed after events had been delivered, and the
\* controller is stopped.
C7_Witness ==
    /\ ioFailed
    /\ state = "STOPPED"
    /\ \E n \in 1 .. Len(log) : log[n].cb \in { "NoteOn", "NoteOff" }

\* C8 as claimed: after a quantity of more than 4 bytes was met in tick()
\* the controller is still playing (PLAYING, or PAUSED by a later pause())
\* with its tracks, one of them marked finished.
C8_OnlyTrackFinished ==
    vlqBad =>
        /\ state \in { "PLAYING", "PAUSED" }
        /\ \E k \in 1 .. Len(tracks) : tracks[k].endOfTrackReached

\* C8 as amended: a quantity of more than 4 bytes met in tick() stops the
\* whole playback: the controller is STOPPED with the file closed and the
\* track list empty, and no event of any track is delivered by later calls
\* until load().
C8_StoppedAfterLongQuantity ==
    [][ /\ vlqBad' => (state' = "STOPPED" /\ ~open' /\ tracks' = << >>)
        /\ (vlqBad /\ vlqBad') => log' = log ]_vars

\* C8 witness: the quantity was met while another track was unfinished.
C8_Witness ==
    /\ vlqBad
    /\ state = "STOPPED"
    /\ LET e == trace[Len(trace)]
       IN \E k \in 1 .. Len(e.pre.tracks) :
              k # e.trk + 1 /\ ~e.pre.tracks[k].endOfTrackReached

\* The entries of trace in which a data byte came first on a track without
\* running status (and the read of that byte did not fail)
DataByteWithoutStatus ==
    { n \in 1 .. Len(trace) :
        /\ trace[n].first \in 0 .. 127
        /\ trace[n].pre.tracks[trace[n].trk + 1].lastStatusByte = 0
        /\ trace[n].kind # "readFailed" }

\* C9: a data byte first on a track without running status marks that
\* track finished and counts it, leaves every other track as it was,
\* delivers no callback for it then or later, and leaves the controller
\* PLAYING with the file open.
C9_RunningStatusErrorEndsOneTrack ==
    \A n \in DataByteWithoutStatus :
        LET e == trace[n]
            k == e.trk + 1
        IN /\ ~e.pre.tracks[k].endOfTrackReached
           /\ e.post.tracks[k].endOfTrackReached
           /\ e.post.finishedTracks = e.pre.finishedTracks + 1
           /\ \A j \in 1 .. Len(e.pre.tracks) :
                  j # k => e.post.tracks[j] = e.pre.tracks[j]
           /\ Len(e.post.tracks) = Len(e.pre.tracks)
           /\ e.post.nlog = e.pre.nlog
           /\ \A m \in (e.post.nlog + 1) .. Len(log) : log[m].trk # e.trk
           /\ \A m \in (n + 1) .. Len(trace) : trace[m].trk # e.trk
           /\ e.post.state = "PLAYING"
           /\ e.post.open

\* C9 witness: after such a track was ended, an event of another track was
\* delivered.
C9_Witness ==
    \E n \in DataByteWithoutStatus :
        /\ trace[n].pre.tracks[trace[n].trk + 1].currentOffset
               > trace[n].pre.tracks[trace[n].trk + 1].startOffset + 1
        /\ \E m \in (trace[n].post.nlog + 1) .. Len(log) :
               log[m].cb \in { "NoteOn", "NoteOff" }

BadHeaderFiles == { "badmagic", "shorthdr" }

\* C10: after load() of a file whose first chunk tag is not MThd or whose
\* header length is below 6, in whatever state it was called, load() has
\* returned false and the controller is STOPPED with no open file and no
\* tracks.
C10_BadHeaderFailsLoad ==
    lastLoad.arg \in BadHeaderFiles =>
        /\ ~lastLoad.ret
        /\ state = "STOPPED"
        /\ ~open
        /\ tracks = << >>

\* C10 witness: load() of the file with the wrong tag was called while
\* PLAYING.
C10_Witness ==
    /\ lastLoad.arg = "badmagic"
    /\ lastLoad.from = "PLAYING"
    /\ ~lastLoad.ret

\* ------------------------------------------------------------------------
\* play, pause, resume, stop
\* ------------------------------------------------------------------------
PlayStep == \E fault \in Faults : Play(fault)

\* The quantity that starts at offset off of the bytes f, by the definition
\* of the format: 7 bits per byte, most significant group first, the top bit
\* set on every byte but the last.
RECURSIVE VlqValueAt(_, _, _)
VlqValueAt(f, off, acc) ==
    IF f[off + 1] >= 128
    THEN VlqValueAt(f, off + 1, acc * 128 + (f[off + 1] - 128))
    ELSE acc * 128 + f[off + 1]

RECURSIVE VlqLengthAt(_, _)
VlqLengthAt(f, off) == IF f[off + 1] >= 128 THEN 1 + VlqLengthAt(f, off + 1) ELSE 1

\* C11: play() called in STOPPED with a loaded file leaves the controller
\* PLAYING with currentTick = 0 and every track not finished, without
\* running status, with its offset just behind its first delta-time and
\* due at that delta-time; while no read fails the tracks are those of the
\* file.
C11_PlayFromStoppedResetsTracks ==
    [][ (open /\ state = "STOPPED" /\ PlayStep) =>
            /\ state' = "PLAYING"
            /\ currentTick' = 0
            /\ open' => Len(tracks') = Len(tracks) /\ Len(tracks') = trackCount'
            /\ \A k \in 1 .. Len(tracks') :
                   /\ ~tracks'[k].endOfTrackReached
                   /\ tracks'[k].lastStatusByte = 0
                   /\ tracks'[k].startOffset = tracks[k].startOffset
                   /\ tracks'[k].currentOffset
                          = tracks[k].startOffset + VlqLengthAt(file, tracks[k].startOffset)
                   /\ tracks'[k].nextEventTick = VlqValueAt(file, tracks[k].startOffset, 0) ]_vars

\* C11 witness: play() has started a file of several tracks, one of them
\* with a first delta-time above 0, and no event has been processed yet.
C11_Witness ==
    /\ state = "PLAYING"
    /\ open
    /\ currentTick = 0
    /\ trace = << >>
    /\ Len(tracks) >= 2
    /\ \E k \in 1 .. Len(tracks) :
           /\ tracks[k].nextEventTick > 0
           /\ tracks[k].currentOffset = tracks[k].startOffset + 1

\* C12: pause(), and play() or resume() after it, leave every track, the
\* current tick, the tempo and the count of finished tracks as they were.
C12_PauseResumeKeepsCursors ==
    [][ (Pause \/ Resume \/ (state = "PAUSED" /\ PlayStep)) =>
            UNCHANGED << tracks, currentTick, microsecondsPerQuarterNote,
                         finishedTracks, trackCount, division >> ]_vars

\* C12 witness: playback was paused after events had been processed and
\* resumed later, which moved the time of the start behind the time of the
\* pause.
C12_Witness ==
    /\ state = "PLAYING"
    /\ pauseStartMicros > 0
    /\ playbackStartMicros > pauseStartMicros
    /\ currentTick > 0
    /\ trace # << >>

\* C13: pause() changes the state only from PLAYING, to PAUSED, and changes
\* nothing in STOPPED or PAUSED; resume() changes the state only from
\* PAUSED, to PLAYING, and changes nothing in STOPPED or PLAYING.
C13_PauseResumeTransitions ==
    [][ /\ Pause => IF state = "PLAYING"
                    THEN state' = "PAUSED"
                    ELSE UNCHANGED progVars
        /\ Resume => IF state = "PAUSED"
                     THEN state' \in { "PAUSED", "PLAYING" }
                     ELSE UNCHANGED progVars ]_vars

\* C13 witness: playback is paused in the middle of a file.
C13_Witness ==
    /\ state = "PAUSED"
    /\ open
    /\ currentTick > 0
    /\ \E k \in 1 .. Len(tracks) : ~tracks[k].endOfTrackReached

\* C14: stop() ends in every state with the controller STOPPED, the file
\* closed and the track list empty, and a second stop() changes nothing.
C14_StopAlwaysStops ==
    [][ Stop =>
            /\ state' = "STOPPED"
            /\ ~open'
            /\ tracks' = << >>
            /\ stop(stop(Player(NoFault))) = stop(Player(NoFault)) ]_vars

\* C14 witness: stop() was called after a successful load() (a playback
\* that ends by itself leaves callbacks in the log).
C14_Witness ==
    /\ state = "STOPPED"
    /\ ~open
    /\ lastLoad.arg = "two"
    /\ lastLoad.ret
    /\ log = << >>
    /\ clock > 0

\* C15: tick() called in STOPPED or PAUSED delivers no callback and changes
\* neither the current tick, the time references, the tempo nor a track.
C15_TickOnlyWhenPlaying ==
    [][ (state # "PLAYING" /\ TickStep) => UNCHANGED << progVars, log, trace >> ]_vars

\* C15 witness: the controller is PAUSED with an unfinished track while
\* the clock has moved on since the pause.
C15_Witness ==
    /\ state = "PAUSED"
    /\ open
    /\ clock >= pauseStartMicros + 2 * ClockStep
    /\ \E k \in 1 .. Len(tracks) : ~tracks[k].endOfTrackReached

\* ------------------------------------------------------------------------
\* Tempo and channel messages
\* ------------------------------------------------------------------------
\* The microseconds the tempo file needs to reach tick 200: 100 ticks at
\* 500000 and 100 ticks at 250000 microseconds per quarter note.
TimeOfTick200 == 100 * (500000 \div TempoDivision) + 100 * (250000 \div TempoDivision)

\* C17 as claimed: playing the tempo file, the current tick has reached 200
\* exactly when the time accounted for since the start is the sum of the two
\* segments, however the tick() calls are spaced.
C17_TempoAppliesAfterItsTick ==
    (lastLoad.arg = "tempo" /\ lastLoad.ret /\ state = "PLAYING" /\ open) =>
        ((currentTick >= 200) <=> ((lastEventMicros - playbackStartMicros) % WideMod >= TimeOfTick200))

\* The bytes of the file the trace belongs to
LoadedFile == Content(lastLoad.arg)

\* The status an entry of trace was decoded with, and the offset of its
\* first byte
EffStatus(e) == IF e.first >= 128 THEN e.first ELSE e.pre.tracks[e.trk + 1].lastStatusByte
EventOffset(e) == e.pre.tracks[e.trk + 1].currentOffset
Data1Offset(e) == IF e.first >= 128 THEN EventOffset(e) + 1 ELSE EventOffset(e)

\* The processed note-on events whose reads all succeeded
NoteOnEvents ==
    { n \in 1 .. Len(trace) :
        /\ trace[n].first >= 0
        /\ EffStatus(trace[n]) \in 144 .. 159
        /\ trace[n].post.open }

\* C18: a note-on with velocity 0 is delivered through the NoteOff callback
\* with its channel, its note and velocity 0, a note-on with a velocity
\* above 0 through the NoteOn callback.
C18_NoteOnVelocityZeroIsNoteOff ==
    \A n \in NoteOnEvents :
        LET e == trace[n]
            note == LoadedFile[Data1Offset(e) + 1]
            velocity == LoadedFile[Data1Offset(e) + 2]
        IN /\ e.post.nlog = e.pre.nlog + 1
           /\ log[e.post.nlog].cb = IF velocity = 0 THEN "NoteOff" ELSE "NoteOn"
           /\ log[e.post.nlog].args = << EffStatus(e) % 16, note, velocity >>
           /\ log[e.post.nlog].trk = e.trk

\* C18 witness: a note-on with velocity 0 and one with a velocity above 0
\* have been delivered.
C18_Witness ==
    /\ \E n \in NoteOnEvents : LoadedFile[Data1Offset(trace[n]) + 2] = 0
    /\ \E n \in NoteOnEvents : LoadedFile[Data1Offset(trace[n]) + 2] > 0

\* The events decoded through running status whose reads all succeeded
RunningEvents ==
    { n \in 1 .. Len(trace) : trace[n].kind = "running" /\ trace[n].post.open }

TwoDataCommands == { 128, 144, 160, 176, 224 }

\* The callback of a channel message by the definition of the format
ExpectedCallback(status, data1, data2) ==
    LET command == (status \div 16) * 16
        channel == status % 16
    IN CASE command = 128 -> [ cb |-> "NoteOff", args |-> << channel, data1, data2 >> ]
         [] command = 144 -> [ cb |-> IF data2 = 0 THEN "NoteOff" ELSE "NoteOn",
                               args |-> << channel, data1, data2 >> ]
         [] command = 176 -> [ cb |-> "ControlChange", args |-> << channel, data1, data2 >> ]
         [] command = 192 -> [ cb |-> "ProgramChange", args |-> << channel, data1 >> ]
         [] command = 224 -> [ cb |-> "PitchBend",
                               args |-> << channel, data2 * 128 + data1 - 8192 >> ]
         [] OTHER -> [ cb |-> "none", args |-> << >> ]

\* C19: an event that starts with a data byte on a track whose last status
\* is a channel status is decoded with that status and channel and with the
\* leading byte as its first data byte; one further data byte is consumed
\* for a message of two data bytes and none for program change and channel
\* pressure (then the next delta-time is read), and the running status
\* stays.
C19_RunningStatusReusesStatus ==
    \A n \in RunningEvents :
        LET e == trace[n]
            k == e.trk + 1
            status == e.pre.tracks[k].lastStatusByte
            two == (status \div 16) * 16 \in TwoDataCommands
            after == EventOffset(e) + 1 + (IF two THEN 1 ELSE 0)
            data2 == IF two THEN LoadedFile[EventOffset(e) + 2] ELSE 0
            expected == ExpectedCallback(status, e.first, data2)
        IN /\ status \in 128 .. 239
           /\ e.first = LoadedFile[EventOffset(e) + 1]
           /\ e.post.tracks[k].currentOffset = after + VlqLengthAt(LoadedFile, after)
           /\ e.post.tracks[k].lastStatusByte = status
           /\ IF expected.cb = "none"
              THEN e.post.nlog = e.pre.nlog
              ELSE /\ e.post.nlog = e.pre.nlog + 1
                   /\ log[e.post.nlog].cb = expected.cb
                   /\ log[e.post.nlog].args = expected.args
                   /\ log[e.post.nlog].trk = e.trk

\* C19 witness: a program change and a message of two data bytes have been
\* decoded through running status.
C19_Witness ==
    /\ \E n \in RunningEvents :
           trace[n].pre.tracks[trace[n].trk + 1].lastStatusByte \in 192 .. 207
    /\ \E n \in RunningEvents :
           (trace[n].pre.tracks[trace[n].trk + 1].lastStatusByte \div 16) * 16 \in TwoDataCommands

\* ------------------------------------------------------------------------
\* Variable-length quantities
\* ------------------------------------------------------------------------
\* The first value that has no encoding of 4 bytes
VlqLimit == 128 * 128 * 128 * 128

\* The values read: those within VlqSpan of a change of the encoded length
VlqSpan == 8
VlqValues ==
    UNION { Max(0, b - VlqSpan) .. Min(VlqLimit - 1, b + VlqSpan) :
            b \in { 0, 128, 128 * 128, 128 * 128 * 128, VlqLimit } }

\* The bytes in front of the quantity
VlqPad == 3

\* The standard encoding of a value: groups of 7 bits, the most significant
\* first, the top bit set on every byte but the last.
RECURSIVE EncodeHigh(_)
EncodeHigh(h) ==
    IF h < 128 THEN << 128 + h >> ELSE EncodeHigh(h \div 128) \o << 128 + (h % 128) >>

Encode(v) == IF v < 128 THEN << v >> ELSE EncodeHigh(v \div 128) \o << v % 128 >>

\* Encodings whose first four bytes all carry the continuation bit
LongQuantities ==
    { << 128, 128, 128, 128, 0 >>, << 255, 255, 255, 255, 127 >>,
      << 129, 128, 128, 128, 128, 0 >> }

\* A file that holds, behind some bytes, the encoding of a value and then a
\* long encoding; nothing has been read.
InitVlq ==
    /\ probe \in [ step : { 0 }, value : VlqValues, start : { 0, VlqPad },
                   long : LongQuantities, v : { 0 }, offset : { 0 }, vla : { "returns" } ]
    /\ file = [ k \in 1 .. probe.start |-> 255 ] \o Encode(probe.value) \o probe.long
    /\ open = TRUE
    /\ state = "STOPPED"
    /\ format = 0
    /\ trackCount = 0
    /\ division = DefaultDivision
    /\ microsecondsPerQuarterNote = DefaultTempo
    /\ currentTick = 0
    /\ playbackStartMicros = 0
    /\ lastEventMicros = 0
    /\ pauseStartMicros = 0
    /\ tracks = << >>
    /\ finishedTracks = 0
    /\ clock = 0
    /\ log = << >>
    /\ trace = << >>
    /\ ioFailed = FALSE
    /\ vlqBad = FALSE
    /\ finishedAll = FALSE
    /\ lastLoad = [ arg |-> "", from |-> "", ret |-> TRUE ]
    /\ twin = NoTwin

\* _readVariableLengthQuantity(offset) at the offset of the probe
ReadAt(offset) ==
    \E r \in { readVariableLengthQuantity(Player(NoFault), offset) } :
       /\ Commit(r.s)
       /\ ioFailed' = r.s.ioFailed
       /\ vlqBad' = r.s.vlqBad
       /\ probe' = [ probe EXCEPT !.step = @ + 1, !.v = r.v, !.offset = r.offset ]
       /\ UNCHANGED << clock, log, trace, finishedAll, lastLoad, twin >>

\* The encoding of the value is read.
ReadQuantity == probe.step = 0 /\ ReadAt(probe.start)

\* The long encoding behind it is read.
ReadLongQuantity == probe.step = 1 /\ ReadAt(probe.offset)

NextVlq == ReadQuantity \/ ReadLongQuantity

SpecVlq == InitVlq /\ [][NextVlq]_vars

\* C20: reading the standard encoding of a value of 0 .. 0x0FFFFFFF gives
\* the value back and moves the offset on by the length of the encoding, 1 to
\* 4 bytes; an encoding whose first four bytes all carry the continuation
\* bit is rejected: the player is stopped and its file closed.
C20_VlqRoundTrip ==
    /\ probe.step = 1 =>
          /\ probe.v = probe.value
          /\ probe.offset = probe.start + Len(Encode(probe.value))
          /\ probe.offset - probe.start = getVlqLength(probe.value)
          /\ probe.offset - probe.start \in 1 .. 4
          /\ open /\ ~vlqBad /\ ~ioFailed
    /\ probe.step = 2 =>
          /\ ~open
          /\ state = "STOPPED"
          /\ vlqBad

\* C20 witness: the largest value was read back from its 4 bytes and the
\* long encoding behind it was rejected.
C20_Witness ==
    /\ probe.step = 2
    /\ probe.value = VlqLimit - 1
    /\ probe.start = VlqPad
    /\ ~open
    /\ vlqBad

\* ------------------------------------------------------------------------
\* A paused run beside an unpaused run
\* ------------------------------------------------------------------------
\* The player runs beside a second player, twin.p, that is loaded and
\* started with it, is never paused and makes its tick() calls when the
\* player makes them, with a clock that stands still while the player is
\* PAUSED: twin.now is the player's time less the time paused.  The clock
\* wraps during a pause only, and twin.now does not wrap.
\* The clock starts at 0 or at PauseClockStart.
PauseClockStart == 8750
\* The clock is advanced by MaxElapsed microseconds at most.
MaxElapsed == 15000

NoTwinAt(c) ==
    [ on |-> FALSE, p |-> << >>, now |-> c, paused |-> 0, wrapped |-> FALSE,
      tickAtPause |-> 0, elapsed |-> 0 ]

InitPause ==
    /\ state = "STOPPED"
    /\ open = FALSE
    /\ file = << >>
    /\ format = 0
    /\ trackCount = 0
    /\ division = DefaultDivision
    /\ microsecondsPerQuarterNote = DefaultTempo
    /\ currentTick = 0
    /\ playbackStartMicros = 0
    /\ lastEventMicros = 0
    /\ pauseStartMicros = 0
    /\ tracks = << >>
    /\ finishedTracks = 0
    /\ clock \in { 0, PauseClockStart }
    /\ log = << >>
    /\ trace = << >>
    /\ ioFailed = FALSE
    /\ vlqBad = FALSE
    /\ finishedAll = FALSE
    /\ lastLoad = [ arg |-> "", from |-> "", ret |-> TRUE ]
    /\ probe = NoProbe
    /\ twin = NoTwinAt(clock)

\* The history of a player record is emptied, as the calls that start
\* anew do it.
Fresh(s) ==
    [ s EXCEPT !.log = << >>, !.trace = << >>, !.ioFailed = FALSE,
               !.vlqBad = FALSE, !.finishedAll = FALSE ]

\* The files of the paused runs
PauseFiles == { "two", "tie", "tempo" }

\* A file is loaded into both players, once.
LoadP(filename) ==
    /\ ~twin.on
    /\ \E r \in { load(Player(NoFault), filename) } :
          /\ Commit(r.s)
          /\ log' = << >>
          /\ trace' = << >>
          /\ ioFailed' = FALSE
          /\ vlqBad' = FALSE
          /\ finishedAll' = FALSE
          /\ lastLoad' = [ arg |-> filename, from |-> IF r.ok THEN "" ELSE state, ret |-> r.ok ]
          /\ twin' = [ twin EXCEPT !.on = TRUE, !.p = Fresh(r.s), !.now = clock,
                                   !.paused = 0, !.wrapped = FALSE, !.tickAtPause = 0 ]
          /\ UNCHANGED << clock, probe >>

PlayP ==
    /\ twin.on
    /\ \E r \in { play(Player(NoFault), clock) } :
          LET starts == open /\ state = "STOPPED"
          IN /\ Commit(r)
             /\ log' = IF starts THEN << >> ELSE log
             /\ trace' = IF starts THEN << >> ELSE trace
             /\ twin' = IF starts
                        THEN [ twin EXCEPT !.p = Fresh(r), !.now = clock, !.paused = 0,
                                           !.wrapped = FALSE, !.tickAtPause = 0 ]
                        ELSE twin
             /\ UNCHANGED << clock, ioFailed, vlqBad, finishedAll, lastLoad, probe >>

PauseP ==
    /\ twin.on
    /\ Commit(pause(Player(NoFault), clock))
    /\ twin' = IF state = "PLAYING" THEN [ twin EXCEPT !.tickAtPause = currentTick ] ELSE twin
    /\ UNCHANGED << clock, log, trace, ioFailed, vlqBad, finishedAll, lastLoad, probe >>

ResumeP ==
    /\ twin.on
    /\ Commit(resume(Player(NoFault), clock))
    /\ UNCHANGED << clock, log, trace, ioFailed, vlqBad, finishedAll, lastLoad, auxVars >>

\* The loop of the host calls tick() of both players.
TickP ==
    /\ twin.on
    /\ \E r \in { tick(Player(NoFault), clock) } :
          /\ Commit(r)
          /\ log' = r.log
          /\ trace' = r.trace
          /\ ioFailed' = r.ioFailed
          /\ vlqBad' = r.vlqBad
          /\ finishedAll' = r.finishedAll
    /\ \E q \in { IF state = "PAUSED" THEN twin.p ELSE tick(twin.p, twin.now) } :
          twin' = [ twin EXCEPT !.p = q ]
    /\ UNCHANGED << clock, lastLoad, probe >>

\* Time passes.
ClockAdvanceP ==
    /\ twin.elapsed + ClockStep <= MaxElapsed
    /\ state # "PAUSED" => clock + ClockStep < ClockMod
    /\ (twin.on /\ state = "PLAYING") => twin.now + ClockStep < ClockMod
    /\ clock' = (clock + ClockStep) % ClockMod
    /\ twin' = IF state = "PAUSED"
               THEN [ twin EXCEPT !.elapsed = @ + ClockStep, !.paused = @ + ClockStep,
                                  !.wrapped = @ \/ (clock + ClockStep >= ClockMod) ]
               ELSE IF state = "PLAYING"
                    THEN [ twin EXCEPT !.elapsed = @ + ClockStep, !.now = @ + ClockStep ]
                    ELSE [ twin EXCEPT !.elapsed = @ + ClockStep ]
    /\ UNCHANGED << progVars, histVars, probe >>

NextPause ==
    \/ \E f \in PauseFiles : LoadP(f)
    \/ PlayP
    \/ PauseP
    \/ ResumeP
    \/ TickP
    \/ ClockAdvanceP

SpecPause == InitPause /\ [][NextPause]_vars

\* C16: after a pause of any length and the resume, tick() computes the
\* current tick that the run without the pause computes at the time less
\* the length of the pause, also when the clock wraps during the pause.
C16_PauseShiftsTickProgression ==
    twin.on => /\ currentTick = twin.p.currentTick
               /\ tracks = twin.p.tracks
               /\ (state = "PAUSED" \/ state = twin.p.state)

\* C16 witness: the playback went on after a pause during which the clock
\* wrapped.
C16_Witness ==
    /\ twin.on
    /\ twin.wrapped
    /\ state = "PLAYING"
    /\ clock < pauseStartMicros
    /\ currentTick > twin.tickAtPause
    /\ twin.tickAtPause > 0

\* ------------------------------------------------------------------------
\* A playback that is left to run
\* ------------------------------------------------------------------------
\* The files whose tracks are all well formed and end with End-of-Track
LiveFiles == { "two", "tie", "tempo" }

\* A file is loaded, play() is called once, and then only tick() is called
\* while the clock advances; no storage fault, no pause() and no stop().
\* twin.on records that play() was called and twin.elapsed the time since.
\* The clock advances by MaxLive microseconds after play(), the time the
\* longest of the files lasts and one step more.
MaxLive == 11250

LoadL(filename) ==
    /\ ~twin.on
    /\ \E r \in { load(Player(NoFault), filename) } :
          /\ Commit(r.s)
          /\ log' = << >>
          /\ trace' = << >>
          /\ ioFailed' = FALSE
          /\ vlqBad' = FALSE
          /\ finishedAll' = FALSE
          /\ lastLoad' = [ arg |-> filename, from |-> IF r.ok THEN "" ELSE state, ret |-> r.ok ]
          /\ UNCHANGED << clock, auxVars >>

PlayL ==
    /\ ~twin.on
    /\ open
    /\ \E r \in { play(Player(NoFault), clock) } :
          /\ Commit(r)
          /\ log' = << >>
          /\ trace' = << >>
          /\ twin' = [ on |-> TRUE, elapsed |-> 0 ]
          /\ UNCHANGED << clock, ioFailed, vlqBad, finishedAll, lastLoad, probe >>

TickL == Tick(NoFault)

\* Time passes: up to MaxClock before play() and for MaxLive microseconds,
\* the counter wrapping, while the playback runs.
ClockAdvanceL ==
    /\ \/ ~twin.on /\ clock + ClockStep <= MaxClock
       \/ twin.on /\ state = "PLAYING" /\ twin.elapsed + ClockStep <= MaxLive
    /\ clock' = (clock + ClockStep) % ClockMod
    /\ twin' = IF twin.on THEN [ twin EXCEPT !.elapsed = @ + ClockStep ] ELSE twin
    /\ UNCHANGED << progVars, histVars, probe >>

NextLive ==
    \/ \E f \in LiveFiles : LoadL(f)
    \/ PlayL
    \/ TickL
    \/ ClockAdvanceL

\* A call of tick() would change the player or deliver a callback: the
\* condition under which a step of TickL that is no stuttering step exists.
TickActs == tick(Player(NoFault), clock) # Player(NoFault)

\* The loop of the host keeps calling tick(): weak fairness of TickL, with
\* its enabling condition written as TickActs.
TickFairness == []<><<TickL>>_vars \/ []<>(~TickActs)

\* tick() keeps being called and the clock keeps advancing.
SpecLive == Init /\ [][NextLive]_vars /\ TickFairness /\ WF_vars(ClockAdvanceL)

C22_PlayingHasFileAndTracks ==
    state \in { "PLAYING", "PAUSED" } =>
        /\ open
        /\ trackCount > 0
        /\ Len(tracks) = trackCount

\* ------------------------------------------------------------------------
\* Tracks: their chunk and their end
\* ------------------------------------------------------------------------
\* The end of the chunk whose data start at offset start of the bytes f: the
\* start plus the declared length, the four bytes in front of the data.
ChunkEnd(f, start) ==
    start + ((f[start - 3] * 256 + f[start - 2]) * 256 + f[start - 1]) * 256 + f[start]

\* C23 as claimed: the read offset of a track never exceeds the end of the
\* track's chunk.
C23_OffsetWithinChunk ==
    open => \A k \in 1 .. Len(tracks) :
               tracks[k].currentOffset <= ChunkEnd(file, tracks[k].startOffset)

\* The calls that start anew
StartsAnew == (\E f \in FileNames, fault \in Faults : Load(f, fault))
              \/ Stop
              \/ (state = "STOPPED" /\ PlayStep)

\* C24: a track that is marked finished is not processed again and its
\* offset, its due tick and its running status stay as they are, until
\* play() in STOPPED, stop() or load(): no event processed in tick() is of a
\* track that was finished, each leaves the finished tracks as they were,
\* and no call but those changes a finished track other than by stop().
C24_FinishedTrackIsLeftAlone ==
    [][ /\ \A n \in 1 .. Len(trace') :
             LET e == trace'[n]
             IN /\ ~e.pre.tracks[e.trk + 1].endOfTrackReached
                /\ \A k \in 1 .. Len(e.post.tracks) :
                      e.pre.tracks[k].endOfTrackReached => e.post.tracks[k] = e.pre.tracks[k]
                /\ \A m \in e.pre.nlog + 1 .. Min(e.post.nlog, Len(log')) :
                      log'[m].trk \in { e.trk, NoTrack }
        /\ \/ \A k \in 1 .. Len(tracks) :
                 tracks[k].endOfTrackReached =>
                    \/ tracks' = << >>
                    \/ /\ Len(tracks') = Len(tracks)
                       /\ tracks'[k] = tracks[k]
                       /\ \A m \in Len(log) + 1 .. Len(log') : log'[m].trk # k - 1
           \/ StartsAnew
      ]_vars

\* C24 witness: an event of one track was processed after another track had
\* finished, and the playback goes on.
C24_Witness ==
    /\ state = "PLAYING"
    /\ \E k \in 1 .. Len(tracks) : tracks[k].endOfTrackReached
    /\ \E n \in 1 .. Len(trace) :
          /\ \E k \in 1 .. Len(trace[n].pre.tracks) : trace[n].pre.tracks[k].endOfTrackReached
          /\ trace[n].post.nlog > trace[n].pre.nlog

\* ------------------------------------------------------------------------
\* Single events
\* ------------------------------------------------------------------------
\* The storage holds the file "event", made of an event and the events in
\* front of it that are drawn at the start; it is loaded and played.
\* The declared lengths of the meta and SysEx events drawn
MaxMetaLength == 6

\* L bytes of data: zeros, or 37, 74, 111, 20, ...
Payload(L, zero) == [ k \in 1 .. L |-> IF zero THEN 0 ELSE (k * 37) % 128 ]

MetaTypes ==
    { META_END_OF_TRACK, META_TEMPO, META_TIME_SIGNATURE, META_TRACK_NAME, 1, 127 }

MetaEvents ==
    { << META_EVENT, ty, L >> \o Payload(L, zero) :
        ty \in MetaTypes, L \in 0 .. MaxMetaLength, zero \in BOOLEAN }

ChannelEvents ==
    { << st, 60, 64 >> : st \in { 128, 144, 145, 160, 176, 224 } }
    \cup { << 144, 60, 0 >> }
    \cup { << st, 5 >> : st \in { 192, 208 } }

DataEvents == { << 60, 64 >>, << 60, 0 >>, << 5 >> }

SysexEvents ==
    { << st, L >> \o Payload(L, FALSE) : st \in { SYSEX_START, SYSEX_END }, L \in { 0, 2 } }

SystemEvents == { << st >> : st \in (241 .. 254) \ { SYSEX_END } }

Events == MetaEvents \cup ChannelEvents \cup DataEvents \cup SysexEvents \cup SystemEvents

\* The events in front: none, a note-on, a program change
Preambles == { << >>, << 0, 144, 60, 64 >>, << 0, 192, 5 >> }

\* The outcome of a name buffer beyond the stack is drawn with the events
\* that have one.
EventProbes ==
    { p \in [ pre : Preambles, ev : Events, vla : VlaOutcomes ] :
        \/ p.vla = "returns"
        \/ /\ Len(p.ev) >= 3
           /\ p.ev[1] = META_EVENT
           /\ p.ev[2] = META_TRACK_NAME
           /\ p.ev[3] + 1 > StackBytes }

InitEvent ==
    /\ probe \in EventProbes
    /\ twin = NoTwin
    /\ state = "STOPPED"
    /\ open = FALSE
    /\ file = << >>
    /\ format = 0
    /\ trackCount = 0
    /\ division = DefaultDivision
    /\ microsecondsPerQuarterNote = DefaultTempo
    /\ currentTick = 0
    /\ playbackStartMicros = 0
    /\ lastEventMicros = 0
    /\ pauseStartMicros = 0
    /\ tracks = << >>
    /\ finishedTracks = 0
    /\ clock = 0
    /\ log = << >>
    /\ trace = << >>
    /\ ioFailed = FALSE
    /\ vlqBad = FALSE
    /\ finishedAll = FALSE
    /\ lastLoad = [ arg |-> "", from |-> "", ret |-> TRUE ]

LoadE == Load("event", NoFault)
PlayE == Play(NoFault)
TickE == Tick(NoFault)

\* Time passes, by MaxEventClock microseconds at most.
MaxEventClock == 2500
ClockAdvanceE == clock + ClockStep <= MaxEventClock /\ ClockAdvance

NextEvent ==
    \/ LoadE
    \/ PlayE
    \/ Stop
    \/ TickE
    \/ ClockAdvanceE

SpecEvent == InitEvent /\ [][NextEvent]_vars

\* The processed events whose track is there afterwards
Decoded ==
    { n \in 1 .. Len(trace) :
        /\ trace[n].first >= 0
        /\ trace[n].post.open
        /\ Len(trace[n].post.tracks) > trace[n].trk }

\* C26: after a decoded event the running status of its track is the status
\* of the event if that is in 0x80 .. 0xEF, 0 if it is in 0xF0 .. 0xFE,
\* and what it was before after a meta event and after an event decoded
\* through running status.
C26_RunningStatusRule ==
    \A n \in Decoded :
        LET e == trace[n]
            before == e.pre.tracks[e.trk + 1].lastStatusByte
            after == e.post.tracks[e.trk + 1].lastStatusByte
        IN /\ e.first \in 128 .. 239 => after = e.first
           /\ e.first \in 240 .. 254 => after = 0
           /\ e.first = META_EVENT => after = before
           /\ e.first < 128 => after = before
           /\ e.kind = "running" <=> (e.first < 128 /\ before \in 128 .. 239)

\* C26 witness: a system message has cleared a running status that a
\* channel message had set, and a meta event has left one as it was.
C26_Witness ==
    /\ \E n \in Decoded :
          /\ trace[n].pre.tracks[trace[n].trk + 1].lastStatusByte \in 128 .. 239
          /\ trace[n].first \in 248 .. 254
          /\ trace[n].post.tracks[trace[n].trk + 1].lastStatusByte = 0
    /\ \E n \in Decoded :
          /\ trace[n].pre.tracks[trace[n].trk + 1].lastStatusByte \in 128 .. 239
          /\ trace[n].first = META_EVENT
          /\ trace[n].post.tracks[trace[n].trk + 1].lastStatusByte
                = trace[n].pre.tracks[trace[n].trk + 1].lastStatusByte

\* The meta events processed whose type and length, a single byte, are in
\* the file: the type, the declared length and the offset of the data
MetaEntries ==
    { n \in 1 .. Len(trace) :
        /\ trace[n].first = META_EVENT
        /\ EventOffset(trace[n]) + 3 <= Len(LoadedFile)
        /\ LoadedFile[EventOffset(trace[n]) + 3] < 128 }
MetaType(e) == LoadedFile[EventOffset(e) + 2]
MetaLength(e) == LoadedFile[EventOffset(e) + 3]
MetaData(e) == EventOffset(e) + 3

\* C25: an End-of-Track meta event of any declared length marks its track
\* finished, raises the count of finished tracks by one and delivers the
\* EndOfTrack callback of the track, the only one of the track; no
\* delta-time is read behind it: the offset is that of the data plus the
\* length and the due tick is unchanged.
C25_EndOfTrackFinishesTrack ==
    \A n \in MetaEntries :
        LET e == trace[n]
            k == e.trk + 1
        IN MetaType(e) = META_END_OF_TRACK =>
              /\ e.post.open
              /\ e.post.tracks[k].endOfTrackReached
              /\ e.post.finishedTracks = e.pre.finishedTracks + 1
              /\ e.post.nlog = e.pre.nlog + 1
              /\ log[e.post.nlog].cb = "EndOfTrack"
              /\ log[e.post.nlog].args = << e.trk >>
              /\ Cardinality({ m \in Delivered("EndOfTrack") : log[m].trk = e.trk }) = 1
              /\ e.post.tracks[k].currentOffset = MetaData(e) + MetaLength(e)
              /\ e.post.tracks[k].nextEventTick = e.pre.tracks[k].nextEventTick

\* C25 witness: an End-of-Track event with a declared length above 0 has
\* finished the second track.
C25_Witness ==
    \E n \in MetaEntries :
       /\ MetaType(trace[n]) = META_END_OF_TRACK
       /\ MetaLength(trace[n]) > 0
       /\ trace[n].pre.finishedTracks = 1
       /\ trace[n].post.finishedTracks = 2

\* C27 as claimed: after a meta event whose data and following delta-time
\* are in the file, the offset of the track is the offset of the data plus
\* the declared length (and the delta-time read behind it, if the track has
\* not finished).
C27_MetaEventSkipsDeclaredLength ==
    \A n \in MetaEntries :
        LET e == trace[n]
            k == e.trk + 1
            after == MetaData(e) + MetaLength(e)
        IN (after < Len(LoadedFile) /\ LoadedFile[after + 1] < 128) =>
              /\ e.post.open
              /\ Len(e.post.tracks) >= k
              /\ e.post.tracks[k].currentOffset =
                    IF e.post.tracks[k].endOfTrackReached THEN after ELSE after + 1

\* The value of a tempo event
TempoValue(e) ==
    (LoadedFile[MetaData(e) + 1] * 256 + LoadedFile[MetaData(e) + 2]) * 256
    + LoadedFile[MetaData(e) + 3]

\* C28: the tempo is never 0; it is 500000 whenever the controller is
\* STOPPED (after construction, load() and stop()); a tempo event of length
\* 3 with a value other than 0 sets it and delivers TempoChange, every other
\* tempo event and every other event leave it and deliver no TempoChange.
C28_TempoNeverZero ==
    /\ microsecondsPerQuarterNote > 0
    /\ state = "STOPPED" => microsecondsPerQuarterNote = DefaultTempo
    /\ \A n \in Decoded :
          LET e == trace[n]
              sets == /\ n \in MetaEntries
                      /\ MetaType(e) = META_TEMPO
                      /\ MetaLength(e) = 3
                      /\ TempoValue(e) # 0
          IN IF sets
             THEN /\ e.post.tempo = TempoValue(e)
                  /\ e.post.nlog = e.pre.nlog + 1
                  /\ log[e.post.nlog].cb = "TempoChange"
                  /\ log[e.post.nlog].args = << TempoValue(e) >>
             ELSE /\ e.post.tempo = e.pre.tempo
                  /\ \A m \in e.pre.nlog + 1 .. e.post.nlog : log[m].cb # "TempoChange"

\* C28 witness: a tempo event of length 3 and value 0 has been processed and
\* the track went on at the tempo it had.
C28_Witness ==
    \E n \in MetaEntries \cap Decoded :
       /\ MetaType(trace[n]) = META_TEMPO
       /\ MetaLength(trace[n]) = 3
       /\ TempoValue(trace[n]) = 0
       /\ trace[n].post.tempo = DefaultTempo
       /\ Len(trace) > n

\* ------------------------------------------------------------------------
\* The clock: wrap and remainder
\* ------------------------------------------------------------------------
\* The player runs beside the second player of SpecPause, without pauses:
\* the clock of the player wraps at ClockMod, twin.now is the time without
\* the wrap.
ClockAdvanceW ==
    /\ twin.elapsed + ClockStep <= MaxElapsed
    /\ clock' = (clock + ClockStep) % ClockMod
    /\ twin' = [ twin EXCEPT !.elapsed = @ + ClockStep, !.now = @ + ClockStep,
                             !.wrapped = @ \/ (clock + ClockStep >= ClockMod) ]
    /\ UNCHANGED << progVars, histVars, probe >>

NextWrap ==
    \/ \E f \in PauseFiles : LoadP(f)
    \/ PlayP
    \/ TickP
    \/ ClockAdvanceW

SpecWrap == InitPause /\ [][NextWrap]_vars

\* C29 as claimed: when the clock wraps, tick() advances the current tick
\* as it would have without the wrap.
C29_WrapKeepsTickProgression ==
    twin.on => /\ currentTick = twin.p.currentTick
               /\ state = twin.p.state

\* The whole number of microseconds per tick, 0 if there is none
WholeMicrosPerTick ==
    IF division > 0 /\ microsecondsPerQuarterNote % division = 0
    THEN microsecondsPerQuarterNote \div division
    ELSE 0

\* C30: at a tempo of a whole number m of microseconds per tick that no
\* event has changed since play(), a call of tick() leaves the current tick
\* at floor((time of the call - playback start) / m) and the sync point at
\* playback start + current tick * m, however the calls are spaced.
C30_RemainderIsCarried ==
    [][ ( /\ TickStep
          /\ state = "PLAYING" /\ state' = "PLAYING"
          /\ open'
          /\ WholeMicrosPerTick > 0
          /\ microsecondsPerQuarterNote' = microsecondsPerQuarterNote
          /\ Delivered("TempoChange") = {}
          /\ lastEventMicros = playbackStartMicros + currentTick * WholeMicrosPerTick )
        => /\ currentTick' = (clock - playbackStartMicros) \div WholeMicrosPerTick
           /\ lastEventMicros' = playbackStartMicros + currentTick' * WholeMicrosPerTick
      ]_vars

\* C30 witness: tick() was called at a time that is no multiple of the
\* tick length, after calls that left a remainder too.
C30_Witness ==
    /\ state = "PLAYING"
    /\ open
    /\ WholeMicrosPerTick > 0
    /\ currentTick >= 7
    /\ currentTick = (clock - playbackStartMicros) \div WholeMicrosPerTick
    /\ lastEventMicros = playbackStartMicros + currentTick * WholeMicrosPerTick
    /\ lastEventMicros < clock
    /\ Len(trace) >= 2
    /\ lastLoad.arg = "two"

\* ------------------------------------------------------------------------
\* load: the chunks of a file
\* ------------------------------------------------------------------------
\* The header of an image declares up to MaxDeclared tracks and up to
\* MaxChunks chunks follow it.
MaxDeclared == 3
MaxChunks == 3

ChunkLists == UNION { [ 1 .. k -> ChunkKinds ] : k \in 0 .. MaxChunks }

\* The player as constructed, with an image on storage; load() has not been
\* called.
InitLoad ==
    /\ probe \in [ extra : HeaderExtras, n : 0 .. MaxDeclared, chunks : ChunkLists,
                   end : ImageEnds, done : { FALSE }, hung : { FALSE },
                   scan : { << >> }, vla : { "returns" } ]
    /\ state = "STOPPED"
    /\ open = FALSE
    /\ file = << >>
    /\ format = 0
    /\ trackCount = 0
    /\ division = DefaultDivision
    /\ microsecondsPerQuarterNote = DefaultTempo
    /\ currentTick = 0
    /\ playbackStartMicros = 0
    /\ lastEventMicros = 0
    /\ pauseStartMicros = 0
    /\ tracks = << >>
    /\ finishedTracks = 0
    /\ clock = 0
    /\ log = << >>
    /\ trace = << >>
    /\ ioFailed = FALSE
    /\ vlqBad = FALSE
    /\ finishedAll = FALSE
    /\ lastLoad = [ arg |-> "", from |-> "", ret |-> TRUE ]
    /\ twin = NoTwin

\* load() of the image.  A load() that does not return leaves the player in
\* the chunk search; nothing is called after it.
LoadI ==
    /\ ~probe.done
    /\ \E r \in { load(Player(NoFault), "image") } :
          /\ Commit(r.s)
          /\ lastLoad' = [ arg |-> "image", from |-> IF r.ok THEN "" ELSE state, ret |-> r.ok ]
          /\ probe' = [ probe EXCEPT !.done = TRUE, !.hung = (r.s.kind = "hang"),
                                     !.scan = r.s.scan ]
          /\ UNCHANGED << clock, log, trace, ioFailed, vlqBad, finishedAll, twin >>

\* play() of what was loaded
PlayI ==
    /\ probe.done /\ ~probe.hung
    /\ state = "STOPPED"
    /\ Commit(play(Player(NoFault), clock))
    /\ UNCHANGED << clock, histVars, auxVars >>

NextLoad == LoadI \/ PlayI

SpecLoad == InitLoad /\ [][NextLoad]_vars

\* The chunks of the probed image that are track chunks, in file order
TrackChunks == { k \in 1 .. Len(probe.chunks) : probe.chunks[k] = "trk" }
\* The i-th of them, i counted from 0
IthTrackChunk(i) ==
    CHOOSE k \in TrackChunks : Cardinality({ j \in TrackChunks : j < k }) = i
\* The offset of chunk k of the probed image, and of its data
ChunkStart(k) ==
    Len(ImageHeader(probe.extra, probe.n)) + Len(ChunksBytes(SubSeq(probe.chunks, 1, k - 1)))
DataStart(k) == ChunkStart(k) + 8

\* C31 as claimed: load() succeeds only if the file holds at least
\* trackCount track chunks that lie inside the file, and track i then starts
\* at the data of the i-th of them, the other chunks skipped; otherwise
\* load() has returned false and no file is open.
C31_LoadFindsTrackChunks ==
    probe.done =>
       IF lastLoad.ret
       THEN /\ open
            /\ probe.n <= Cardinality(TrackChunks)
            /\ Len(tracks) = probe.n
            /\ \A i \in 0 .. probe.n - 1 :
                  tracks[i + 1].startOffset = DataStart(IthTrackChunk(i))
       ELSE ~open /\ ~probe.hung

\* C32 as claimed: for a header chunk of declared length L >= 6 the search
\* for the track chunks starts at offset 8 + L.
C32_SearchStartsBehindHeader ==
    (probe.done /\ probe.scan # << >>) =>
       probe.scan[1] = << 0, 8 + 6 + Len(probe.extra) >>

\* C33 as claimed: the chunk search of load() ends for every file, each
\* pass of the search for a track starting behind the pass before it.
C33_ChunkScanTerminates ==
    probe.done =>
       /\ ~probe.hung
       /\ \A k \in 1 .. Len(probe.scan) - 1 :
             probe.scan[k][1] = probe.scan[k + 1][1]
                => Lt32(probe.scan[k][2], probe.scan[k + 1][2])

\* ------------------------------------------------------------------------
\* The division of a file
\* ------------------------------------------------------------------------
\* The divisions a header declares: ticks per quarter note (high bit clear)
\* and SMPTE codes (high bit set)
Divisions == { 0, 1, DefaultDivision, FileDivision, 32767, 32768, 57896, 65535 }

InitDivision ==
    /\ probe \in [ division : Divisions, vla : { "returns" } ]
    /\ state = "STOPPED"
    /\ open = FALSE
    /\ file = << >>
    /\ format = 0
    /\ trackCount = 0
    /\ division = DefaultDivision
    /\ microsecondsPerQuarterNote = DefaultTempo
    /\ currentTick = 0
    /\ playbackStartMicros = 0
    /\ lastEventMicros = 0
    /\ pauseStartMicros = 0
    /\ tracks = << >>
    /\ finishedTracks = 0
    /\ clock = 0
    /\ log = << >>
    /\ trace = << >>
    /\ ioFailed = FALSE
    /\ vlqBad = FALSE
    /\ finishedAll = FALSE
    /\ lastLoad = [ arg |-> "", from |-> "", ret |-> TRUE ]
    /\ twin = NoTwin

\* load() is called when no file is open.
LoadD == ~open /\ Load("division", NoFault)
PlayD == Play(NoFault)
TickD == Tick(NoFault)

NextDivision == LoadD \/ PlayD \/ Pause \/ Resume \/ Stop \/ TickD \/ ClockAdvance

SpecDivision == InitDivision /\ [][NextDivision]_vars

\* C34 as claimed: after a successful load() the division is at least 1,
\* and it keeps its value until the next load() or stop().
C34_DivisionAtLeastOneAndConstant ==
    [][ /\ open' => division' >= 1
        /\ (open /\ open') => division' = division ]_vars

\* ------------------------------------------------------------------------
\* Callbacks that call stop()
\* ------------------------------------------------------------------------
\* In a call of tick() the application's callbacks return, or the first or
\* the second .. MaxHook-th of them calls stop().
MaxHook == 2
Hooks == { NoFault } \cup (0 .. MaxHook - 1)

HookFiles == { "two", "tie" }

LoadH(filename) == Load(filename, NoFault)
PlayH == Play(NoFault)

TickH(hook) ==
    \E r \in { tick([ Player(NoFault) EXCEPT !.hook = hook ], clock) } :
       /\ Commit(r)
       /\ log' = r.log
       /\ trace' = r.trace
       /\ ioFailed' = r.ioFailed
       /\ vlqBad' = r.vlqBad
       /\ finishedAll' = r.finishedAll
       /\ UNCHANGED << clock, lastLoad, auxVars >>

NextHook ==
    \/ \E f \in HookFiles : LoadH(f)
    \/ PlayH
    \/ Stop
    \/ \E hook \in Hooks : TickH(hook)
    \/ ClockAdvance

SpecHook == Init /\ [][NextHook]_vars

\* C35 as claimed: after a callback has called stop() no callback is
\* delivered (the log starts anew with load(), play() from STOPPED and a
\* stop() of the application outside tick()).
C35_NoCallbackAfterStop ==
    \A n \in 1 .. Len(log) : log[n].cb = "stop()" => n = Len(log)

\* ------------------------------------------------------------------------
\* Files of many tracks
\* ------------------------------------------------------------------------
\* The numbers of tracks of the files: up to the first numbers that the
\* finished-track counter does not hold
TrackCounts == 1 .. CountMod + 1

InitCount ==
    /\ probe \in [ ntracks : TrackCounts, vla : { "returns" } ]
    /\ state = "STOPPED"
    /\ open = FALSE
    /\ file = << >>
    /\ format = 0
    /\ trackCount = 0
    /\ division = DefaultDivision
    /\ microsecondsPerQuarterNote = DefaultTempo
    /\ currentTick = 0
    /\ playbackStartMicros = 0
    /\ lastEventMicros = 0
    /\ pauseStartMicros = 0
    /\ tracks = << >>
    /\ finishedTracks = 0
    /\ clock = 0
    /\ log = << >>
    /\ trace = << >>
    /\ ioFailed = FALSE
    /\ vlqBad = FALSE
    /\ finishedAll = FALSE
    /\ lastLoad = [ arg |-> "", from |-> "", ret |-> TRUE ]
    /\ twin = NoTwin

LoadC == ~open /\ Load("tracks", NoFault)
PlayC == Play(NoFault)
TickC == Tick(NoFault)

NextCount == LoadC \/ PlayC \/ Pause \/ Resume \/ Stop \/ TickC \/ ClockAdvance

SpecCount == InitCount /\ [][NextCount]_vars

\* C36 as claimed: for every declared number of tracks, once all tracks
\* have finished the completion is detected: PlaybackComplete is delivered
\* and the playback has stopped.
C36_CompletionForEveryTrackCount ==
    (\E n \in 1 .. Len(log) : log[n].cb = "EndOfTrack" /\ log[n].all)
       => /\ Delivered("PlaybackComplete") # {}
          /\ state = "STOPPED"

\* ------------------------------------------------------------------------
\* The passes of tick() and the finished-track counter
\* ------------------------------------------------------------------------
\* The entries that a step adds to trace: the passes of the loop of tick()
NewPasses == (Len(trace) + 1) .. Len(trace')

\* C37: the loop of one tick() runs at most as many times as the file has
\* bytes: every pass moves the offset of its track forward by at least one
\* byte or marks the track finished, or it has stopped the player (a failed
\* read, a quantity of more than 4 bytes) and is the last pass.
C37_TickProcessesFinitelyManyEvents ==
    [][ TickStep =>
          /\ Len(trace) <= Len(trace')
          /\ Cardinality(NewPasses) <= Len(file)
          /\ \A n \in NewPasses :
                LET e == trace'[n]
                    k == e.trk + 1
                IN \/ ~e.post.open /\ n = Len(trace')
                   \/ /\ e.post.open
                      /\ e.post.tracks[k].endOfTrackReached
                      /\ ~e.pre.tracks[k].endOfTrackReached
                   \/ /\ e.post.open
                      /\ e.post.tracks[k].currentOffset >= e.pre.tracks[k].currentOffset + 1
      ]_vars

\* C37 witness: the tick() at the time of play() has run its loop five
\* times, for three tracks, and the playback goes on.
C37_Witness ==
    /\ state = "PLAYING"
    /\ clock = playbackStartMicros
    /\ Len(trace) = 5
    /\ { trace[n].trk : n \in 1 .. Len(trace) } = { 0, 1, 2 }
    /\ \A n \in 1 .. Len(trace) :
          trace[n].post.tracks[trace[n].trk + 1].currentOffset
             > trace[n].pre.tracks[trace[n].trk + 1].currentOffset

\* The tracks whose finished flag is set
FinishedFlags == { k \in 1 .. Len(tracks) : tracks[k].endOfTrackReached }

\* C38: while the player is PLAYING or PAUSED on a file of fewer tracks than
\* the finished-track counter holds, the counter is the number of tracks
\* whose finished flag is set.
C38_CounterIsNumberOfFlags ==
    (state \in { "PLAYING", "PAUSED" } /\ trackCount < CountMod)
       => finishedTracks = Cardinality(FinishedFlags)

\* C38 witness: two of three tracks have finished, by running-status
\* errors, and the playback is paused.
C38_Witness ==
    /\ state = "PAUSED"
    /\ trackCount = 3
    /\ finishedTracks = 2
    /\ FinishedFlags = { 1, 2 }
    /\ Cardinality({ n \in 1 .. Len(trace) : trace[n].kind = "runningStatusError" }) = 2

====
